---- MODULE Spec2Model ----
(***************************************************************************)
(* Model of the two cores of the skill-matching demo:                      *)
(*   - the hybrid candidate search (useCandidateSearch, SkillTypes.ts),    *)
(*     with the embedding utilities it calls (lib/EmbeddingProvider);      *)
(*   - the force-directed knowledge-graph visualizer (KnowledgeGraph.tsx). *)
(*                                                                         *)
(* Numbers.  Scores, relevances and similarities are reals in the code;    *)
(* here they are integers counting 1/SCORE-ths, and the stores are drawn   *)
(* from vectors whose norms are perfect squares, so that every score the   *)
(* search computes is represented exactly (ExactScores checks this).       *)
(***************************************************************************)
EXTENDS Integers, Sequences, FiniteSets, TLC

VARIABLES
    \* ---- the store and the environment of the search ----
    skills,         \* result of 'SELECT * FROM skill', in store order
    employees,      \* result of 'SELECT * FROM employee', in store order
    hasSkill,       \* the has_skill edges, in store order
    outage,         \* which awaited call the environment rejects
    request,        \* the searchQuery each invocation was passed: query, filters, limit
    \* ---- one search invocation per slot (mutationFn's locals) ----
    pc,             \* position of the invocation: the await it is parked on
    queryEmbedding, \* const queryEmbedding
    relevantSkills, \* const relevantSkills
    empList,        \* const employees (the fetched list being iterated)
    empIdx,         \* position of the for-of loop over employees
    candidates,     \* const candidates
    result,         \* what the promise settled with
    thrown,         \* history: the failure the try block met, if any
    storeCalls      \* the store queries the invocation has issued

searchVars == <<skills, employees, hasSkill, outage, request, pc, queryEmbedding,
                relevantSkills, empList, empIdx, candidates, result, thrown,
                storeCalls>>

VARIABLES
    \* ---- the KnowledgeGraph component ----
    kgEmployees,    \* data of useEmployees(): the ids, in query order
    kgSkills,       \* data of useSkills()
    settled,        \* the hooks whose query has returned data at least once
    inflight,       \* fetchEdges calls whose query has not settled
    mounted,        \* the component is on the page
    loading,        \* useState(true)
    nodes,          \* nodesRef.current
    nodesEpoch,     \* how many node sets have been created (identity of node objects)
    edges,          \* edgesRef.current
    selectedNode,   \* useState(null): the node object, as id and epoch
    zoom,           \* useState(1)
    pan,            \* useState({x: 0, y: 0})
    draggingNode,   \* useState(null): the id
    isSimulatingRef,
    isSimulating,
    animationRef,   \* whether a frame request is pending
    frameRequests,  \* the requests of the loop the browser holds
    elapsed,        \* time - lastTime of the loop, up to FrameInterval
    sinceFrame,     \* time since the last executed frame, up to FrameInterval
    \* ---- observations ----
    lastRender,     \* what the last render pass read and drew
    lastEvent,      \* the last step of the component
    zoomRun,        \* the current run of zoom operations in one direction
    count,          \* events so far, by kind
    limits          \* events explored, by kind

graphVars == <<kgEmployees, kgSkills, settled, inflight, mounted, loading, nodes, nodesEpoch,
               edges, selectedNode, zoom, pan, draggingNode, isSimulatingRef,
               isSimulating, animationRef, frameRequests, elapsed, sinceFrame, lastRender,
               lastEvent,
               zoomRun, count, limits>>

VARIABLES
    \* ---- lib/EmbeddingProvider ----
    currentConfig,  \* let currentConfig: the provider and whether a key is set
    embedded,       \* the embeddings generate has returned, oldest first
    \* ---- a call of a pure function on its own ----
    args,           \* the arguments of the call
    returned        \* what the call returned or threw

embedVars == <<currentConfig, embedded, args, returned>>

VARIABLES
    \* ---- lib/Surreal ----
    surrealInstance, \* let surrealInstance: the instances created, how far the one held is set up
    usersession,     \* whether localStorage holds a 'usersession' token
    caller           \* each caller of getSurrealInstance: its position, what it was handed

dbVars == <<surrealInstance, usersession, caller>>

vars == <<searchVars, graphVars, embedVars, dbVars>>

-----------------------------------------------------------------------------
(* Bounds of the model *)

MaxSkills == 2
MaxEmployees == 2
MaxEdges == 2
MaxTicks == 3
MaxArrivals == 2
MaxPointerOps == 4
MaxZoomOps == 11
MaxEmbedded == 2
MaxDim == 2
MaxCallers == 2

(* Fixed-point unit of scores: 1.0 is SCORE *)
SCORE == 10000

-----------------------------------------------------------------------------
(* Generic helpers *)

RECURSIVE SumSeq(_)
SumSeq(s) == IF s = <<>> THEN 0 ELSE Head(s) + SumSeq(Tail(s))

SeqsUpTo(S, n) == UNION {[1..k -> S] : k \in 0..n}

\* Math.sqrt on the squares the model's vectors produce; -1 marks a norm
\* that is not a perfect square (never drawn, see ExactScores)
Sqrt(n) ==
    IF \E r \in 0..n : r * r = n THEN CHOOSE r \in 0..n : r * r = n ELSE -1

-----------------------------------------------------------------------------
(* lib/EmbeddingProvider: vectors, the mock provider, cosine similarity *)

\* Vectors are written in integer multiples of a common unit; cosine
\* similarity does not depend on the unit.  A vector of the model has one
\* coordinate for every DimensionUnit coordinates of the code's vector: the
\* dimensions the providers declare (384, 1024, 1536) are multiples of it.
DimensionUnit == 128
MockDimensions == 384
OpenAIDimensions == 1536
OllamaDimensions == 1024

V34 == <<3, 4, 0>>
V10 == <<1, 0, 0>>
V01 == <<0, 1, 0>>
VNeg == <<-3, -4, 0>>
VEmpty == <<>>

\* an optional 'embedding?: number[]' field
NoEmbedding == [present |-> FALSE, vec |-> <<>>]
Embedding(v) == [present |-> TRUE, vec |-> v]

\* a query text is the sequence of its char codes
TextPy == <<80, 121>>          \* "Py"
TextMl == <<109, 108>>         \* "ml"
Queries == {TextPy, TextMl}

\* text.toLowerCase().trim() on ASCII codes
ToLowerCase(text) ==
    [i \in 1..Len(text) |-> IF text[i] \in 65..90 THEN text[i] + 32 ELSE text[i]]

RECURSIVE TrimLeft(_)
TrimLeft(text) ==
    IF text # <<>> /\ Head(text) = 32 THEN TrimLeft(Tail(text)) ELSE text

RECURSIVE TrimRight(_)
TrimRight(text) ==
    IF text # <<>> /\ text[Len(text)] = 32
    THEN TrimRight(SubSeq(text, 1, Len(text) - 1)) ELSE text

Trim(text) == TrimRight(TrimLeft(text))

\* hash = ((hash << 5) - hash) + char, i.e. 31*hash + char; the texts of the
\* model are short enough that the 32-bit wrap of 'hash & hash' never occurs
RECURSIVE hashFrom(_, _)
hashFrom(hash, str) ==
    IF str = <<>> THEN hash ELSE hashFrom(((hash * 32) - hash) + Head(str), Tail(str))

hashString(str) == hashFrom(0, str)

\* The mock embedding is a function of the seed alone (a seeded generator,
\* then normalisation).  The 384 pseudo-random coordinates are reduced to a
\* table of model vectors indexed by the seed.
MockVectors == <<V10, V34, V01>>

MockGenerate(text) ==
    LET seed == hashString(Trim(ToLowerCase(text)))
    IN  MockVectors[(seed % Len(MockVectors)) + 1]

\* generateEmbedding with the default (mock) provider
generateEmbedding(text) == MockGenerate(text)

Providers == {"mock", "local", "openai", "ollama"}

\* the 'dimensions' field of the provider objects
dimensions(provider) ==
    CASE provider = "mock" -> MockDimensions
      [] provider = "local" -> MockDimensions
      [] provider = "openai" -> OpenAIDimensions
      [] provider = "ollama" -> OllamaDimensions

\* getDefaultProvider and the initial currentConfig: the binding of the
\* environment, no OpenAI key
DefaultConfig(binding) ==
    [provider |-> IF binding \in {"ollama", "openai", "local"} THEN binding ELSE "mock",
     openaiApiKey |-> FALSE]

\* the Partial<EmbeddingConfig> a caller passes: "keep" is an absent field
ConfigChanges ==
    [provider : Providers \cup {"keep"}, openaiApiKey : {"set", "unset", "keep"}]

\* { ...currentConfig, ...config }
MergeConfig(config, change) ==
    [provider |-> IF change.provider = "keep" THEN config.provider ELSE change.provider,
     openaiApiKey |-> IF change.openaiApiKey = "keep" THEN config.openaiApiKey
                      ELSE change.openaiApiKey = "set"]

\* how the remote call of generate ends
RemoteOutcomes == {"ok", "error", "timeout"}

\* what the remote service embeds a text as: a vector of the dimensions the
\* provider declares, a function of the text
RemoteVector(provider, text) ==
    LET n == dimensions(provider) \div DimensionUnit
        at == (hashString(Trim(ToLowerCase(text))) % n) + 1
    IN  [k \in 1..n |-> IF k = at THEN 1 ELSE 0]

\* provider.generate(text) under a configuration and an outcome of the remote
\* call: the vector returned and whether it is the mock fallback
generate(config, text, remote) ==
    LET fallback == [vec |-> MockGenerate(text), fellBack |-> TRUE]
    IN  CASE config.provider = "mock" -> [vec |-> MockGenerate(text), fellBack |-> FALSE]
          [] config.provider = "local" -> fallback
          [] config.provider = "openai" ->
                IF ~config.openaiApiKey \/ remote # "ok" THEN fallback
                ELSE [vec |-> RemoteVector("openai", text), fellBack |-> FALSE]
          [] config.provider = "ollama" ->
                IF remote # "ok" THEN fallback
                ELSE [vec |-> RemoteVector("ollama", text), fellBack |-> FALSE]

Dot(a, b) == SumSeq([i \in 1..Len(a) |-> a[i] * b[i]])

\* mutant: the longer vector is cut to the length of the shorter
cosineSimilarity_Truncating(a, b) ==
    LET n == IF Len(a) < Len(b) THEN Len(a) ELSE Len(b)
        x == SubSeq(a, 1, n)
        y == SubSeq(b, 1, n)
        magnitude == Sqrt(Dot(x, x)) * Sqrt(Dot(y, y))
    IN  [threw |-> FALSE,
         val |-> IF magnitude <= 0 THEN 0 ELSE (Dot(x, y) * SCORE) \div magnitude]

\* mutant: no guard on the magnitude, 0 / 0 comes out as a value that is no
\* cosine
cosineSimilarity_Unguarded(a, b) ==
    IF Len(a) # Len(b) THEN [threw |-> TRUE, val |-> 0]
    ELSE LET magnitude == Sqrt(Dot(a, a)) * Sqrt(Dot(b, b))
         IN  [threw |-> FALSE,
              val |-> IF magnitude = 0 THEN 2 * SCORE ELSE (Dot(a, b) * SCORE) \div magnitude]

\* cosineSimilarity: threw = the 'Vector dimension mismatch' Error; val in
\* 1/SCORE-ths
cosineSimilarity(a, b) ==
    IF Len(a) # Len(b) THEN [threw |-> TRUE, val |-> 0]
    ELSE LET dotProduct == Dot(a, b)
             normA == Dot(a, a)
             normB == Dot(b, b)
             magnitude == Sqrt(normA) * Sqrt(normB)
         IN  [threw |-> FALSE,
              val |-> IF magnitude = 0 THEN 0 ELSE (dotProduct * SCORE) \div magnitude]

-----------------------------------------------------------------------------
(* useCandidateSearch: the pure parts of mutationFn *)

DefaultRelevance == 3000        \* 0.3
RelevanceFloor == 4000          \* 0.4
TopSkills == 15
CertifiedBonus == 1000          \* 0.1
DefaultSemanticScore == 5000    \* 0.5
MaxProficiency == 5
DefaultLimit == 10

Proficiencies == 1..MaxProficiency

\* x * (num/den); the scores of the model are multiples of den
Scale(x, num, den) == (x * num) \div den

\* Array.prototype.sort with the comparator (a, b) => key(b) - key(a): the
\* sort is stable, so an element goes after every element with a greater
\* key and after the earlier elements with an equal key.  keys[i] is the
\* key of s[i].
SortDescBy(s, keys) ==
    LET n == Len(s)
        Rank(i) == Cardinality({j \in 1..n :
                        keys[j] > keys[i] \/ (keys[j] = keys[i] /\ j < i)}) + 1
    IN  [p \in 1..n |-> s[CHOOSE i \in 1..n : Rank(i) = p]]

\* Array.prototype.slice(0, end) for end >= 0
Slice0(s, end) == SubSeq(s, 1, IF end < Len(s) THEN end ELSE Len(s))

\* .sort((a, b) => b.relevance - a.relevance)
SortByRelevance(s) == SortDescBy(s, [i \in 1..Len(s) |-> s[i].relevance])

\* mutant: candidates of equal matchScore come out in reverse order
SortByMatchScore_TiesReversed(s) ==
    LET n == Len(s)
        reversed == [k \in 1..n |-> s[n + 1 - k]]
    IN  SortDescBy(reversed, [i \in 1..n |-> reversed[i].matchScore])

\* .sort((a, b) => b.matchScore - a.matchScore)
SortByMatchScore(s) == SortDescBy(s, [i \in 1..Len(s) |-> s[i].matchScore])

\* the .map step: relevance of one skill to the query
SkillRelevance(qe, skill) ==
    IF skill.embedding.present
    THEN cosineSimilarity(qe, skill.embedding.vec)
    ELSE [threw |-> FALSE, val |-> DefaultRelevance]

\* a throw inside .map aborts the whole chain
RelevanceThrows(qe, allSkills) ==
    \E k \in 1..Len(allSkills) : SkillRelevance(qe, allSkills[k]).threw

\* mutant: no floor
AboveFloor_Always(s) == TRUE

\* .filter(s => s.relevance > 0.4)
AboveFloor(s) == s.relevance > RelevanceFloor

\* .map(...).filter(s => s.relevance > 0.4).sort(...).slice(0, 15)
RelevantSkills(qe, allSkills) ==
    LET mapped == [k \in 1..Len(allSkills) |->
                      [skill |-> allSkills[k].id,
                       relevance |-> SkillRelevance(qe, allSkills[k]).val]]
        kept == SelectSeq(mapped, AboveFloor)
    IN  Slice0(SortByRelevance(kept), TopSkills)

\* relevantSkills.find(rs => rs.skill.id === empSkill.out): index of the
\* first match, 0 when there is none
FindRelevant(rel, out) ==
    IF \E k \in 1..Len(rel) : rel[k].skill = out
    THEN CHOOSE k \in 1..Len(rel) :
            rel[k].skill = out /\ \A j \in 1..(k - 1) : rel[j].skill # out
    ELSE 0

\* mutant: the certification bonus scaled by the relevance
EdgeContribution_ScaledBonus(edge, relevance) ==
    Scale(edge.proficiency * relevance, 1, MaxProficiency)
        + (IF edge.certified THEN Scale(relevance, 1, 10) ELSE 0)

\* mutant: no bonus for a certified edge
EdgeContribution_NoBonus(edge, relevance) ==
    Scale(edge.proficiency * relevance, 1, MaxProficiency)

\* graphScore += (proficiency / 5) * relevance; if certified, += 0.1
EdgeContribution(edge, relevance) ==
    Scale(edge.proficiency * relevance, 1, MaxProficiency)
        + (IF edge.certified THEN CertifiedBonus ELSE 0)

\* the inner for-of over empSkills: [matchedSkills, graphScore] after the
\* first n edges
RECURSIVE ScoreEdges(_, _, _)
ScoreEdges(empSkills, rel, n) ==
    IF n = 0 THEN [matchedSkills |-> <<>>, graphScore |-> 0]
    ELSE LET acc == ScoreEdges(empSkills, rel, n - 1)
             edge == empSkills[n]
             k == FindRelevant(rel, edge.out)
         IN  IF k = 0 THEN acc
             ELSE [matchedSkills |->
                       Append(acc.matchedSkills,
                              [skill |-> rel[k].skill,
                               proficiency |-> edge.proficiency,
                               relevance |-> rel[k].relevance]),
                   graphScore |-> acc.graphScore + EdgeContribution(edge, rel[k].relevance)]

\* emp.embedding ? cosineSimilarity(queryEmbedding, emp.embedding) : 0.5
SemanticScore(qe, emp) ==
    IF emp.embedding.present
    THEN cosineSimilarity(qe, emp.embedding.vec)
    ELSE [threw |-> FALSE, val |-> DefaultSemanticScore]

\* mutant: the two weights exchanged
MatchScore_SwappedWeights(graphScore, semanticScore) ==
    Scale(graphScore, 4, 10) + Scale(semanticScore, 6, 10)

\* (graphScore * 0.6) + (semanticScore * 0.4)
MatchScore(graphScore, semanticScore) ==
    Scale(graphScore, 6, 10) + Scale(semanticScore, 4, 10)

\* mutant: the guard dropped
IsCandidate_Always(matchedSkills) == TRUE

\* if (matchedSkills.length > 0)
IsCandidate(matchedSkills) == Len(matchedSkills) > 0

\* the body of the for-of over employees, after the has_skill query returned
\* empSkills: threw, or the candidates list with the employee pushed (or not)
ScoreEmployee(cands, qe, rel, emp, empSkills) ==
    LET scored == ScoreEdges(empSkills, rel, Len(empSkills))
        sem == SemanticScore(qe, emp)
    IN  IF ~IsCandidate(scored.matchedSkills) THEN [threw |-> FALSE, candidates |-> cands]
        ELSE IF sem.threw THEN [threw |-> TRUE, candidates |-> cands]
        ELSE [threw |-> FALSE,
              candidates |->
                  Append(cands,
                         [employee |-> emp.id,
                          matchScore |-> MatchScore(scored.graphScore, sem.val),
                          matchedSkills |-> SortByRelevance(scored.matchedSkills),
                          semanticScore |-> sem.val,
                          graphScore |-> scored.graphScore])]

\* the limit the destructuring 'limit = 10' yields
EffectiveLimit(limit) == IF limit.given THEN limit.value ELSE DefaultLimit

\* the value returned after the loop
SuccessResult(cands, limit) ==
    [status |-> "resolved",
     candidates |-> Slice0(SortByMatchScore(cands), EffectiveLimit(limit)),
     totalMatches |-> Len(cands)]

\* the value returned when relevantSkills is empty
NoSkillsResult ==
    [status |-> "resolved", candidates |-> <<>>, totalMatches |-> 0]

\* mutant: the catch block rethrows
CatchResult_Rethrow ==
    [status |-> "rejected", candidates |-> <<>>, totalMatches |-> 0]

\* the value returned by the catch block
CatchResult ==
    [status |-> "resolved", candidates |-> <<>>, totalMatches |-> 0]

\* mutant: filters.certified and filters.minProficiency become conditions on
\* the employee's edges
EmployeeQuery_AllFilters(filters) ==
    LET Matches(e) ==
            /\ filters.department = "" \/ e.department = filters.department
            /\ \E k \in 1..Len(hasSkill) :
                   /\ hasSkill[k].in = e.id
                   /\ filters.certified => hasSkill[k].certified
                   /\ hasSkill[k].proficiency >= filters.minProficiency
    IN  SelectSeq(employees, Matches)

\* 'SELECT * FROM employee' with the WHERE clause built from filters
EmployeeQuery(filters) ==
    LET Matches(e) == filters.department = "" \/ e.department = filters.department
    IN  SelectSeq(employees, Matches)

\* 'SELECT * FROM has_skill WHERE in = $empId'
HasSkillQuery(empId) ==
    LET OfEmp(e) == e.in = empId
    IN  SelectSeq(hasSkill, OfEmp)

-----------------------------------------------------------------------------
(* useCandidateSearch: mutationFn as a process, one step per await *)

Slots == {1, 2}

NoOutage == [call |-> "none", emp |-> 0]
Rejects(call, emp) == outage = [call |-> call, emp |-> emp]

\* mutant: one candidates list shared by the invocations
NewCandidates_Shared(i) == candidates[3 - i]

\* const candidates: CandidateMatch[] = [] -- a list of the invocation's own
NewCandidates(i) == <<>>

\* mutant: the relevant-skill list read from a cache the invocations share
OwnRelevantSkills_Shared(i) == relevantSkills[3 - i]

\* const relevantSkills = ...: the list the invocation built itself, read in
\* the loop through its closure
OwnRelevantSkills(i) == relevantSkills[i]

\* the catch block: log, return the empty result
Catch(i, what) ==
    /\ thrown' = [thrown EXCEPT ![i] = what]
    /\ result' = [result EXCEPT ![i] = CatchResult]
    /\ pc' = [pc EXCEPT ![i] = "done"]

\* the loop is over: sort, slice, return
Finish(i, cands) ==
    /\ UNCHANGED thrown
    /\ result' = [result EXCEPT ![i] = SuccessResult(cands, request[i].limit)]
    /\ pc' = [pc EXCEPT ![i] = "done"]

\* mutate(searchQuery): runs up to 'await generateEmbedding(query)'
StartSearch(i) ==
    /\ pc[i] = "idle"
    /\ UNCHANGED <<graphVars, embedVars, dbVars>>
    /\ pc' = [pc EXCEPT ![i] = "embed"]
    /\ UNCHANGED <<skills, employees, hasSkill, outage, request, queryEmbedding,
                   relevantSkills, empList, empIdx, candidates, result, thrown,
                   storeCalls>>

\* the embedding promise settles; on success the skill query is issued
EmbedReturn(i) ==
    /\ pc[i] = "embed"
    /\ UNCHANGED <<graphVars, embedVars, dbVars>>
    /\ IF Rejects("embed", 0)
       THEN /\ Catch(i, "embed")
            /\ UNCHANGED <<queryEmbedding, storeCalls>>
       ELSE /\ queryEmbedding' =
                   [queryEmbedding EXCEPT ![i] = generateEmbedding(request[i].query)]
            /\ storeCalls' = [storeCalls EXCEPT ![i] = Append(@, "skill")]
            /\ pc' = [pc EXCEPT ![i] = "skills"]
            /\ UNCHANGED <<result, thrown>>
    /\ UNCHANGED <<skills, employees, hasSkill, outage, request,
                   relevantSkills, empList, empIdx, candidates>>

\* the skill query settles: relevance, floor, sort, top 15; either the early
\* return or the employee query
SkillsReturn(i) ==
    /\ pc[i] = "skills"
    /\ UNCHANGED <<graphVars, embedVars, dbVars>>
    /\ IF Rejects("skills", 0) \/ RelevanceThrows(queryEmbedding[i], skills)
       THEN /\ Catch(i, IF Rejects("skills", 0) THEN "skills" ELSE "mismatch")
            /\ UNCHANGED <<relevantSkills, storeCalls>>
       ELSE LET rel == RelevantSkills(queryEmbedding[i], skills)
            IN  /\ relevantSkills' = [relevantSkills EXCEPT ![i] = rel]
                /\ IF Len(rel) = 0
                   THEN /\ result' = [result EXCEPT ![i] = NoSkillsResult]
                        /\ pc' = [pc EXCEPT ![i] = "done"]
                        /\ UNCHANGED <<storeCalls, thrown>>
                   ELSE /\ storeCalls' = [storeCalls EXCEPT ![i] = Append(@, "employee")]
                        /\ pc' = [pc EXCEPT ![i] = "employees"]
                        /\ UNCHANGED <<result, thrown>>
    /\ UNCHANGED <<skills, employees, hasSkill, outage, request, queryEmbedding,
                   empList, empIdx, candidates>>

\* the employee query settles: the candidates list is created and the loop
\* issues the has_skill query of the first employee, or ends at once
EmployeesReturn(i) ==
    /\ pc[i] = "employees"
    /\ UNCHANGED <<graphVars, embedVars, dbVars>>
    /\ IF Rejects("employees", 0)
       THEN /\ Catch(i, "employees")
            /\ UNCHANGED <<empList, empIdx, candidates, storeCalls>>
       ELSE LET emps == EmployeeQuery(request[i].filters)
            IN  /\ empList' = [empList EXCEPT ![i] = emps]
                /\ candidates' = [candidates EXCEPT ![i] = NewCandidates(i)]
                /\ IF Len(emps) = 0
                   THEN /\ Finish(i, NewCandidates(i))
                        /\ UNCHANGED <<empIdx, storeCalls>>
                   ELSE /\ empIdx' = [empIdx EXCEPT ![i] = 1]
                        /\ storeCalls' = [storeCalls EXCEPT ![i] = Append(@, "has_skill")]
                        /\ pc' = [pc EXCEPT ![i] = "has_skill"]
                        /\ UNCHANGED <<result, thrown>>
    /\ UNCHANGED <<skills, employees, hasSkill, outage, request, queryEmbedding,
                   relevantSkills>>

\* the has_skill query of the current employee settles: score the employee,
\* then the next employee's query, or the end of the loop
HasSkillReturn(i) ==
    /\ pc[i] = "has_skill"
    /\ UNCHANGED <<graphVars, embedVars, dbVars>>
    /\ LET emp == empList[i][empIdx[i]]
           scored == ScoreEmployee(candidates[i], queryEmbedding[i], OwnRelevantSkills(i),
                                   emp, HasSkillQuery(emp.id))
       IN  IF Rejects("has_skill", emp.id) \/ scored.threw
           THEN /\ Catch(i, IF Rejects("has_skill", emp.id) THEN "has_skill" ELSE "mismatch")
                /\ UNCHANGED <<empIdx, candidates, storeCalls>>
           ELSE /\ candidates' = [candidates EXCEPT ![i] = scored.candidates]
                /\ IF empIdx[i] = Len(empList[i])
                   THEN /\ Finish(i, scored.candidates)
                        /\ UNCHANGED <<empIdx, storeCalls>>
                   ELSE /\ empIdx' = [empIdx EXCEPT ![i] = @ + 1]
                        /\ storeCalls' = [storeCalls EXCEPT ![i] = Append(@, "has_skill")]
                        /\ UNCHANGED <<pc, result, thrown>>
    /\ UNCHANGED <<skills, employees, hasSkill, outage, request, queryEmbedding,
                   relevantSkills, empList>>

-----------------------------------------------------------------------------
(* lib/EmbeddingProvider: the configuration and the calls of generate *)

NotCalled == [called |-> FALSE, value |-> <<>>]
Called(value) == [called |-> TRUE, value |-> value]

\* no embedding call and no call of a pure function on its own
EmbeddingIdle ==
    /\ currentConfig = DefaultConfig("")
    /\ embedded = <<>>
    /\ args = <<>>
    /\ returned = NotCalled

setEmbeddingConfig(change) ==
    /\ currentConfig' = MergeConfig(currentConfig, change)
    /\ UNCHANGED <<embedded, args, returned>>
    /\ UNCHANGED <<searchVars, graphVars, dbVars>>

\* generateEmbedding(text): the configured provider's generate, whose remote
\* call ends as 'remote'; the result is kept, as the stored embeddings are
GenerateEmbedding(text, remote) ==
    /\ Len(embedded) < MaxEmbedded
    /\ LET made == generate(currentConfig, text, remote)
       IN  embedded' = Append(embedded,
                              [vec |-> made.vec, fellBack |-> made.fellBack,
                               provider |-> currentConfig.provider, text |-> text])
    /\ UNCHANGED <<currentConfig, args, returned>>
    /\ UNCHANGED <<searchVars, graphVars, dbVars>>

\* cosineSimilarity of two embeddings made earlier, as the search computes it
\* of a query embedding and a stored one
Compare(a, b) ==
    /\ a \in 1..Len(embedded) /\ b \in 1..Len(embedded) /\ a < b
    /\ args' = <<embedded[a].vec, embedded[b].vec>>
    /\ returned' = Called(cosineSimilarity(embedded[a].vec, embedded[b].vec))
    /\ UNCHANGED <<currentConfig, embedded>>
    /\ UNCHANGED <<searchVars, graphVars, dbVars>>

\* cosineSimilarity(a, b) called on the arguments drawn
CosineCall ==
    /\ ~returned.called
    /\ Len(args) = 2
    /\ returned' = Called(cosineSimilarity(args[1], args[2]))
    /\ UNCHANGED <<currentConfig, embedded, args>>
    /\ UNCHANGED <<searchVars, graphVars, dbVars>>

-----------------------------------------------------------------------------
(* KnowledgeGraph.tsx: numbers of the visualizer                            *)
(*                                                                         *)
(* World coordinates, velocities and forces are reals in the code; here    *)
(* they are integers counting 1/UNIT-ths of a pixel, and every division    *)
(* rounds toward zero.  A NaN is carried by the flag 'nan' of the node:    *)
(* the only source of NaN in simulateStep is the repulsion of two nodes at *)
(* the same position, which makes both components of the force NaN, and    *)
(* from there velocity and position of the node.                           *)

UNIT == 16
Px(n) == n * UNIT

\* zoom counts 1/ZOOM-ths: zoom 1.0 is ZOOM
ZOOM == 1000

Abs(a) == IF a < 0 THEN -a ELSE a
Min(a, b) == IF a <= b THEN a ELSE b
Max(a, b) == IF a >= b THEN a ELSE b

\* real division, rounded toward zero (b > 0)
Div(a, b) == IF a >= 0 THEN a \div b ELSE -((-a) \div b)

\* Math.sqrt, rounded down
RECURSIVE IsqrtIn(_, _, _)
IsqrtIn(n, lo, hi) ==
    IF lo = hi THEN lo
    ELSE LET mid == (lo + hi + 1) \div 2
         IN IF mid * mid <= n THEN IsqrtIn(n, mid, hi) ELSE IsqrtIn(n, lo, mid - 1)
Isqrt(n) == IsqrtIn(n, 0, 46340)

-----------------------------------------------------------------------------
(* KnowledgeGraph.tsx: nodes and edges *)

CanvasWidth == 800
CanvasHeight == 600
CenterX == Px(CanvasWidth) \div 2
CenterY == Px(CanvasHeight) \div 2

EmployeeRadius == 28
SkillRadius == 22

\* null of the code
Null == "null"
NoSelection == [id |-> Null, epoch |-> 0]

\* what useEmployees / useSkills can deliver: the ids, in query order
EmployeeData == {<<>>, <<"e1">>, <<"e1", "e2">>}
SkillData == {<<>>, <<"s1">>}

\* what 'SELECT in, out, proficiency FROM has_skill' can deliver
EdgeSnapshots ==
    {<<>>,
     <<[in |-> "e1", out |-> "s1", proficiency |-> 4]>>,
     <<[in |-> "e1", out |-> "s1", proficiency |-> 4],
       [in |-> "e2", out |-> "s1", proficiency |-> 0]>>}

FetchOutcomes ==
    {[ok |-> TRUE, data |-> s] : s \in EdgeSnapshots} \cup {[ok |-> FALSE, data |-> <<>>]}

\* edgeData.map(e => ({source: String(e.in), target: String(e.out), proficiency}))
ToGraphEdges(edgeData) ==
    [k \in 1..Len(edgeData) |->
        [source |-> edgeData[k].in, target |-> edgeData[k].out,
         proficiency |-> edgeData[k].proficiency]]

\* the draws of Math.random() in one run of the node creation effect: the
\* share of the radius above its minimum (pixels) and the velocity component
\* (1/UNIT pixels); the random part of the angle is drawn as 0
Draws == {[radius |-> 0, velocity |-> 0], [radius |-> 40, velocity |-> 8]}

\* cos((i / n) * 2 * PI) for i = 0 and i = n / 2, where the sine is 0
Direction(i, n) == IF 2 * i = n THEN -1 ELSE 1

GraphNode(id, type, x, y, v) ==
    [id |-> id, type |-> type, x |-> x, y |-> y, vx |-> v, vy |-> v,
     radius |-> Px(IF type = "employee" THEN EmployeeRadius ELSE SkillRadius),
     nan |-> FALSE]

EmployeeNode(id, i, n, draw) ==
    GraphNode(id, "employee",
              CenterX - Px(100) + Direction(i, n) * Px(100 + draw.radius), CenterY,
              draw.velocity)

SkillNode(id, i, n, draw) ==
    GraphNode(id, "skill",
              CenterX + Px(100) + Direction(i, n) * Px(120 + draw.radius), CenterY,
              draw.velocity)

\* the body of the node creation effect: employees first, then skills
CreateNodes(emps, sks, draw) ==
    [k \in 1..Len(emps) |-> EmployeeNode(emps[k], k - 1, Len(emps), draw)]
        \o [k \in 1..Len(sks) |-> SkillNode(sks[k], k - 1, Len(sks), draw)]

HasNode(ns, id) == \E k \in 1..Len(ns) : ns[k].id = id

\* nodes.find(n => n.id === id), as a position: 0 when there is none
FindIndex(ns, id) ==
    IF HasNode(ns, id)
    THEN CHOOSE k \in 1..Len(ns) : ns[k].id = id /\ \A j \in 1..(k - 1) : ns[j].id # id
    ELSE 0

-----------------------------------------------------------------------------
(* KnowledgeGraph.tsx: simulateStep *)

NoForce == [nan |-> FALSE, fx |-> 0, fy |-> 0]
NaNForce == [nan |-> TRUE, fx |-> 0, fy |-> 0]

AddForce(f, g) ==
    IF f.nan \/ g.nan THEN NaNForce
    ELSE [nan |-> FALSE, fx |-> f.fx + g.fx, fy |-> f.fy + g.fy]

RECURSIVE SumForces(_)
SumForces(fs) == IF fs = <<>> THEN NoForce ELSE AddForce(Head(fs), SumForces(Tail(fs)))

GravityPer10000 == 5

\* center gravity: (center - position) * 0.0005
Gravity(node) ==
    IF node.nan THEN NaNForce
    ELSE [nan |-> FALSE,
          fx |-> Div((CenterX - node.x) * GravityPer10000, 10000),
          fy |-> Div((CenterY - node.y) * GravityPer10000, 10000)]

SameTypeRepulsion == 2500
CrossTypeRepulsion == 1500

\* repulsion of node from other: force = strength / distSq along (dx, dy) / dist,
\* dist = Math.sqrt(distSq) || 1.  At distance 0 the force is Infinity and the
\* direction 0 / 1 = 0, and 0 * Infinity is NaN.
Repulsion(node, other) ==
    LET dx == node.x - other.x
        dy == node.y - other.y
        distSq == dx * dx + dy * dy
        root == Isqrt(distSq)
        dist == IF root = 0 THEN UNIT ELSE root
        strength == IF node.type = other.type THEN SameTypeRepulsion ELSE CrossTypeRepulsion
        force == Div(strength * UNIT * UNIT * UNIT, distSq)
    IN IF node.nan \/ other.nan \/ distSq = 0 THEN NaNForce
       ELSE [nan |-> FALSE, fx |-> Div(dx * force, dist), fy |-> Div(dy * force, dist)]

RestLength == 120
RestLengthPerProficiency == 10
DefaultProficiency == 3
SpringPer100 == 2

\* attraction of node along an edge to other: (dist - targetDist) * 0.02
Attraction(node, other, edge) ==
    LET dx == other.x - node.x
        dy == other.y - node.y
        root == Isqrt(dx * dx + dy * dy)
        dist == IF root = 0 THEN UNIT ELSE root
        proficiency == IF edge.proficiency = 0 THEN DefaultProficiency ELSE edge.proficiency
        targetDist == Px(RestLength - proficiency * RestLengthPerProficiency)
        force == Div((dist - targetDist) * SpringPer100, 100)
    IN IF node.nan \/ other.nan THEN NaNForce
       ELSE [nan |-> FALSE, fx |-> Div(dx * force, dist), fy |-> Div(dy * force, dist)]

\* the pull of one edge on node: nothing unless the edge touches the node and
\* its other endpoint is found among the nodes
EdgePull(ns, node, edge) ==
    LET touches == edge.source = node.id \/ edge.target = node.id
        otherId == IF edge.source = node.id THEN edge.target ELSE edge.source
    IN IF touches /\ HasNode(ns, otherId)
       THEN Attraction(node, ns[FindIndex(ns, otherId)], edge)
       ELSE NoForce

\* fx, fy of nodes[i] after the three loops
Force(ns, es, i) ==
    AddForce(Gravity(ns[i]),
        AddForce(SumForces([j \in 1..Len(ns) |->
                               IF j = i THEN NoForce ELSE Repulsion(ns[i], ns[j])]),
                 SumForces([k \in 1..Len(es) |-> EdgePull(ns, ns[i], es[k])])))

DampingPer100 == 85
MaxVel == 5
Margin == 40

\* Math.sqrt(vx * vx + vy * vy) > maxVel ? (v / vel) * maxVel : v; components
\* too large to square in 32 bits are scaled down first, which keeps the
\* direction
ClampVelocity(vx, vy) ==
    LET k == Max(Abs(vx), Abs(vy)) \div 16384 + 1
        sx == Div(vx, k)
        sy == Div(vy, k)
        vel == Isqrt(sx * sx + sy * sy)
    IN IF k > 1 \/ sx * sx + sy * sy > Px(MaxVel) * Px(MaxVel)
       THEN <<Div(sx * Px(MaxVel), vel), Div(sy * Px(MaxVel), vel)>>
       ELSE <<vx, vy>>

\* velocity and position of the node once the force is applied, before the
\* bounds are looked at
Advance(node, f) ==
    IF f.nan
    THEN [node EXCEPT !.nan = TRUE, !.x = 0, !.y = 0, !.vx = 0, !.vy = 0]
    ELSE LET v == ClampVelocity(Div((node.vx + f.fx) * DampingPer100, 100),
                                Div((node.vy + f.fy) * DampingPer100, 100))
         IN [node EXCEPT !.vx = v[1], !.vy = v[2],
                         !.x = node.x + v[1], !.y = node.y + v[2]]

\* keep in bounds with soft bounce: four comparisons in turn, each false on NaN
Bounce(node) ==
    LET a == IF node.x < Px(Margin)
             THEN [node EXCEPT !.x = Px(Margin), !.vx = Div(-node.vx, 2)] ELSE node
        b == IF a.x > Px(CanvasWidth - Margin)
             THEN [a EXCEPT !.x = Px(CanvasWidth - Margin), !.vx = Div(-a.vx, 2)] ELSE a
        c == IF b.y < Px(Margin)
             THEN [b EXCEPT !.y = Px(Margin), !.vy = Div(-b.vy, 2)] ELSE b
        d == IF c.y > Px(CanvasHeight - Margin)
             THEN [c EXCEPT !.y = Px(CanvasHeight - Margin), !.vy = Div(-c.vy, 2)] ELSE c
    IN IF node.nan THEN node ELSE d

\* one iteration of the loop over the nodes
StepNode(ns, es, i) == Bounce(Advance(ns[i], Force(ns, es, i)))

\* mutant: the dragged node is simulated like the others
IsSkipped_Never(node, dragging) == FALSE

\* mutant: the loop goes around the selected node
IsSkipped_Selected(node, dragging) == node.id = selectedNode.id

\* if (node.id === draggingNode) continue
IsSkipped(node, dragging) == node.id = dragging

\* iterations i..last of the loop; it updates the nodes in place, so nodes[i]
\* sees the new positions of the nodes before it
RECURSIVE StepFrom(_, _, _, _, _)
StepFrom(ns, es, i, last, dragging) ==
    IF i > last THEN ns
    ELSE StepFrom(IF IsSkipped(ns[i], dragging) THEN ns
                  ELSE [ns EXCEPT ![i] = StepNode(ns, es, i)],
                  es, i + 1, last, dragging)

simulateStep(ns, es, dragging) ==
    IF Len(ns) = 0 THEN ns ELSE StepFrom(ns, es, 1, Len(ns), dragging)

-----------------------------------------------------------------------------
(* KnowledgeGraph.tsx: render and the view *)

\* mutant: every edge is drawn
Drawable_Always(ns, edge) == TRUE

\* if (source && target): both endpoints found among the nodes
Drawable(ns, edge) == HasNode(ns, edge.source) /\ HasNode(ns, edge.target)

NoRender == [nodeIds |-> <<>>, edges |-> <<>>, drawn |-> <<>>]

\* a render pass, observed: the nodes and edges it read, the edges it drew
render(ns, es) ==
    LET Test(edge) == Drawable(ns, edge)
    IN [nodeIds |-> [k \in 1..Len(ns) |-> ns[k].id], edges |-> es,
        drawn |-> SelectSeq(es, Test)]

MinZoom == ZOOM \div 2
MaxZoom == 3 * ZOOM
\* mutant: the view starts, and is reset to, a pan of ten pixels
Origin_Shifted == [x |-> Px(10), y |-> 0]

Origin == [x |-> 0, y |-> 0]

\* mutant: zooming in without the upper clamp
ZoomInLevel_Unclamped(z) == Div(z * 12, 10)

\* setZoom(z => Math.min(z * 1.2, 3))
ZoomInLevel(z) == Min(Div(z * 12, 10), MaxZoom)

\* setZoom(z => Math.max(z / 1.2, 0.5))
ZoomOutLevel(z) == Max(Div(z * 10, 12), MinZoom)

\* the transform of render: translate(pan + size / 2), scale(zoom),
\* translate(-size / 2): where a world point is drawn on the canvas
ToScreen(w, z, pn) ==
    [x |-> pn.x + CenterX + Div((w.x - CenterX) * z, ZOOM),
     y |-> pn.y + CenterY + Div((w.y - CenterY) * z, ZOOM)]

\* mutant: the zoom is left out of the conversion
ToWorld_IgnoringZoom(p, z, pn) ==
    [x |-> Px(p[1]) - pn.x, y |-> Px(p[2]) - pn.y]

\* canvas point to world coordinates: (c - pan - size / 2) / zoom + size / 2
ToWorld(p, z, pn) ==
    [x |-> Div((Px(p[1]) - pn.x - CenterX) * ZOOM, z) + CenterX,
     y |-> Div((Px(p[2]) - pn.y - CenterY) * ZOOM, z) + CenterY]

\* dx * dx + dy * dy < node.radius * node.radius; false on a NaN position
Hit(node, w) ==
    /\ ~node.nan
    /\ (w.x - node.x) * (w.x - node.x) + (w.y - node.y) * (w.y - node.y)
           < node.radius * node.radius

\* canvas points the pointer events arrive at: inside the first employee's
\* and the first skill's initial circles, and left of the margin
PointerPoints == {<<420, 300>>, <<640, 300>>, <<10, 300>>}

FrameInterval == 16
\* milliseconds between two animation callbacks
FramePeriods == {8, 16}

-----------------------------------------------------------------------------
(* KnowledgeGraph.tsx: the component as a state machine.  A state update     *)
(* made by a handler is committed, and the effects that depend on it are   *)
(* re-run, within the step of the handler.                                 *)

Kinds == {"ticks", "frames", "skips", "arrivals", "pointer", "zooms", "toggles", "unmounts"}

\* the event is within the number of events of its kind that are explored
Within(kind) == count[kind] < limits[kind]

Event(name, kind) ==
    /\ lastEvent' = name
    /\ count' = IF kind \in Kinds THEN [count EXCEPT ![kind] = @ + 1] ELSE count
    /\ UNCHANGED limits

\* canvasRef.current: the canvas is rendered once loading is over
Canvas == mounted /\ ~loading

\* mutant: the cleanup leaves the request pending
CancelFrame_Skipped(n) == n

\* the cleanup of the animation loop effect:
\* if (animationRef.current) cancelAnimationFrame(animationRef.current)
CancelFrame(n) == IF animationRef = "pending" THEN n - 1 ELSE n

\* the animation loop effect depends on simulateStep and render, which are
\* re-created when draggingNode, zoom, pan or selectedNode change: the pending
\* frame is cancelled, a new one requested, and lastTime starts from 0 again
RestartLoop(changed) ==
    /\ elapsed' = IF changed THEN FrameInterval ELSE elapsed
    /\ frameRequests' = IF changed THEN CancelFrame(frameRequests) + 1 ELSE frameRequests
    /\ UNCHANGED animationRef

Hooks == {"employees", "skills"}

\* useEmployees or useSkills delivers (a fetch or a refetch): both effects on
\* [employees, skills] run
DataArrives(hook, data, draw) ==
    /\ mounted
    /\ Within("arrivals")
    \* an empty list after an empty list keeps its reference: no effect runs
    /\ \/ data # <<>>
       \/ (IF hook = "employees" THEN kgEmployees ELSE kgSkills) # <<>>
       \/ hook \notin settled
    /\ settled' = settled \cup {hook}
    /\ LET emps == IF hook = "employees" THEN data ELSE kgEmployees
           sks == IF hook = "skills" THEN data ELSE kgSkills
           fetches == Len(emps) > 0 /\ Len(sks) > 0
           creates == ~(Len(emps) = 0 /\ Len(sks) = 0) /\ Canvas
       IN /\ kgEmployees' = emps
          /\ kgSkills' = sks
          /\ inflight' = IF fetches THEN inflight + 1 ELSE inflight
          /\ nodes' = IF creates THEN CreateNodes(emps, sks, draw) ELSE nodes
          /\ nodesEpoch' = IF creates THEN nodesEpoch + 1 ELSE nodesEpoch
          /\ creates \/ draw.radius = 0
    /\ Event("data", "arrivals")
    /\ UNCHANGED <<mounted, loading, edges, selectedNode, zoom, pan, draggingNode,
                   isSimulatingRef, isSimulating, animationRef, elapsed, lastRender,
                   zoomRun>>
    /\ UNCHANGED <<searchVars, embedVars, dbVars, sinceFrame, frameRequests>>

\* the query of a fetchEdges call settles: try, catch, finally
FetchEdgesSettles(outcome) ==
    /\ inflight > 0
    /\ inflight' = inflight - 1
    /\ edges' = IF outcome.ok THEN ToGraphEdges(outcome.data) ELSE edges
    /\ loading' = IF mounted THEN FALSE ELSE loading
    /\ Event(IF outcome.ok THEN "edges" ELSE "edgesFailed", "none")
    /\ UNCHANGED <<kgEmployees, kgSkills, mounted, nodes, nodesEpoch, selectedNode, zoom,
                   pan, draggingNode, isSimulatingRef, isSimulating, animationRef,
                   elapsed, lastRender, zoomRun>>
    /\ UNCHANGED <<searchVars, embedVars, dbVars, settled, sinceFrame, frameRequests>>

\* mutant: the step runs whatever the flag
SimulationOn_Always == TRUE

\* if (isSimulatingRef.current)
SimulationOn == isSimulatingRef

\* animate(time), period milliseconds after the callback before it
animate(period) ==
    \* the browser calls back for a request it holds; the callback requests
    \* the next frame
    /\ frameRequests > 0
    /\ frameRequests' = (frameRequests - 1) + 1
    /\ LET e == Min(elapsed + period, FrameInterval)
           executes == e >= FrameInterval
           simulates == executes /\ SimulationOn /\ Len(nodes) > 0
           ns == IF simulates THEN simulateStep(nodes, edges, draggingNode) ELSE nodes
       IN /\ simulates => Within("ticks")
          /\ executes /\ ~simulates => Within("frames")
          /\ ~executes => Within("skips")
          /\ nodes' = ns
          /\ lastRender' = IF executes /\ Canvas THEN render(ns, edges) ELSE lastRender
          /\ elapsed' = IF executes THEN 0 ELSE e
          /\ sinceFrame' = IF executes THEN 0 ELSE Min(sinceFrame + period, FrameInterval)
          /\ Event(IF simulates THEN "tick" ELSE IF executes THEN "frame" ELSE "skip",
                   IF simulates THEN "ticks" ELSE IF executes THEN "frames" ELSE "skips")
    /\ UNCHANGED <<kgEmployees, kgSkills, inflight, mounted, loading, nodesEpoch, edges,
                   selectedNode, zoom, pan, draggingNode, isSimulatingRef, isSimulating,
                   animationRef, zoomRun>>
    /\ UNCHANGED <<searchVars, embedVars, dbVars, settled>>

handleMouseDown(p) ==
    /\ Canvas
    /\ Within("pointer")
    /\ LET w == ToWorld(p, zoom, pan)
           hits == {k \in 1..Len(nodes) : Hit(nodes[k], w)}
           first == CHOOSE k \in hits : \A j \in hits : k <= j
       IN IF hits # {}
          THEN /\ selectedNode' = [id |-> nodes[first].id, epoch |-> nodesEpoch]
               /\ draggingNode' = nodes[first].id
          ELSE /\ selectedNode' = NoSelection
               /\ UNCHANGED draggingNode
    /\ RestartLoop(selectedNode' # selectedNode \/ draggingNode' # draggingNode)
    /\ Event("down", "pointer")
    /\ UNCHANGED <<kgEmployees, kgSkills, inflight, mounted, loading, nodes, nodesEpoch,
                   edges, zoom, pan, isSimulatingRef, isSimulating, lastRender, zoomRun>>
    /\ UNCHANGED <<searchVars, embedVars, dbVars, settled, sinceFrame>>

handleMouseMove(p) ==
    /\ Canvas
    /\ draggingNode # Null
    /\ Within("pointer")
    /\ LET w == ToWorld(p, zoom, pan)
           i == FindIndex(nodes, draggingNode)
       IN nodes' = IF i = 0 THEN nodes
                   ELSE [nodes EXCEPT ![i] = [@ EXCEPT !.x = w.x, !.y = w.y, !.vx = 0,
                                                       !.vy = 0, !.nan = FALSE]]
    /\ Event("move", "pointer")
    /\ UNCHANGED <<kgEmployees, kgSkills, inflight, mounted, loading, nodesEpoch, edges,
                   selectedNode, zoom, pan, draggingNode, isSimulatingRef, isSimulating,
                   animationRef, elapsed, lastRender, zoomRun>>
    /\ UNCHANGED <<searchVars, embedVars, dbVars, settled, sinceFrame, frameRequests>>

\* onMouseUp and onMouseLeave
handleMouseUp ==
    /\ Canvas
    /\ Within("pointer")
    /\ draggingNode' = Null
    /\ RestartLoop(draggingNode # Null)
    /\ Event("up", "pointer")
    /\ UNCHANGED <<kgEmployees, kgSkills, inflight, mounted, loading, nodes, nodesEpoch,
                   edges, selectedNode, zoom, pan, isSimulatingRef, isSimulating,
                   lastRender, zoomRun>>
    /\ UNCHANGED <<searchVars, embedVars, dbVars, settled, sinceFrame>>

toggleSimulation ==
    /\ Canvas
    /\ Within("toggles")
    /\ isSimulatingRef' = ~isSimulatingRef
    /\ isSimulating' = isSimulatingRef'
    /\ Event("toggle", "toggles")
    /\ UNCHANGED <<kgEmployees, kgSkills, inflight, mounted, loading, nodes, nodesEpoch,
                   edges, selectedNode, zoom, pan, draggingNode, animationRef, elapsed,
                   lastRender, zoomRun>>
    /\ UNCHANGED <<searchVars, embedVars, dbVars, settled, sinceFrame, frameRequests>>

\* the run of zoom operations in one direction that the last one belongs to
Run(dir) ==
    IF zoomRun.dir = dir THEN [zoomRun EXCEPT !.n = @ + 1]
    ELSE [from |-> zoom, dir |-> dir, n |-> 1]

ZoomIn ==
    /\ Canvas
    /\ Within("zooms")
    /\ zoom' = ZoomInLevel(zoom)
    /\ zoomRun' = Run("in")
    /\ RestartLoop(zoom' # zoom)
    /\ Event("zoomIn", "zooms")
    /\ UNCHANGED <<kgEmployees, kgSkills, inflight, mounted, loading, nodes, nodesEpoch,
                   edges, selectedNode, pan, draggingNode, isSimulatingRef, isSimulating,
                   lastRender>>
    /\ UNCHANGED <<searchVars, embedVars, dbVars, settled, sinceFrame>>

ZoomOut ==
    /\ Canvas
    /\ Within("zooms")
    /\ zoom' = ZoomOutLevel(zoom)
    /\ zoomRun' = Run("out")
    /\ RestartLoop(zoom' # zoom)
    /\ Event("zoomOut", "zooms")
    /\ UNCHANGED <<kgEmployees, kgSkills, inflight, mounted, loading, nodes, nodesEpoch,
                   edges, selectedNode, pan, draggingNode, isSimulatingRef, isSimulating,
                   lastRender>>
    /\ UNCHANGED <<searchVars, embedVars, dbVars, settled, sinceFrame>>

\* setPan gets a new object, so the loop restarts even at zoom 1
resetView ==
    /\ Canvas
    /\ Within("zooms")
    /\ zoom' = ZOOM
    /\ pan' = Origin
    /\ zoomRun' = [from |-> ZOOM, dir |-> "none", n |-> 0]
    /\ RestartLoop(TRUE)
    /\ Event("reset", "zooms")
    /\ UNCHANGED <<kgEmployees, kgSkills, inflight, mounted, loading, nodes, nodesEpoch,
                   edges, selectedNode, draggingNode, isSimulatingRef, isSimulating,
                   lastRender>>
    /\ UNCHANGED <<searchVars, embedVars, dbVars, settled, sinceFrame>>

\* the cleanup of the animation loop effect when the component goes away
Unmount ==
    /\ mounted
    /\ Within("unmounts")
    /\ mounted' = FALSE
    /\ frameRequests' = CancelFrame(frameRequests)
    /\ animationRef' = "none"
    /\ Event("unmount", "unmounts")
    /\ UNCHANGED <<kgEmployees, kgSkills, inflight, loading, nodes, nodesEpoch, edges,
                   selectedNode, zoom, pan, draggingNode, isSimulatingRef, isSimulating,
                   elapsed, lastRender, zoomRun>>
    /\ UNCHANGED <<searchVars, embedVars, dbVars, settled, sinceFrame>>

\* the first render and the first run of the effects; data the query cache
\* already holds is there from the start
GraphConstructed(emps, sks, lim) ==
    /\ kgEmployees = emps
    /\ kgSkills = sks
    /\ settled = {hook \in Hooks : (IF hook = "employees" THEN emps ELSE sks) # <<>>}
    /\ inflight = IF Len(emps) > 0 /\ Len(sks) > 0 THEN 1 ELSE 0
    /\ mounted = TRUE
    /\ loading = TRUE
    /\ nodes = <<>>
    /\ nodesEpoch = 0
    /\ edges = <<>>
    /\ selectedNode = NoSelection
    /\ zoom = ZOOM
    /\ pan = Origin
    /\ draggingNode = Null
    /\ isSimulatingRef = TRUE
    /\ isSimulating = TRUE
    /\ animationRef = "pending"
    /\ frameRequests = 1
    /\ elapsed = FrameInterval
    /\ sinceFrame = FrameInterval
    /\ lastRender = NoRender
    /\ lastEvent = "mount"
    /\ zoomRun = [from |-> ZOOM, dir |-> "none", n |-> 0]
    /\ count = [k \in Kinds |-> 0]
    /\ limits = lim

\* a page without the visualizer
GraphAbsent ==
    /\ kgEmployees = <<>>
    /\ kgSkills = <<>>
    /\ settled = {}
    /\ inflight = 0
    /\ mounted = FALSE
    /\ loading = TRUE
    /\ nodes = <<>>
    /\ nodesEpoch = 0
    /\ edges = <<>>
    /\ selectedNode = NoSelection
    /\ zoom = ZOOM
    /\ pan = Origin
    /\ draggingNode = Null
    /\ isSimulatingRef = TRUE
    /\ isSimulating = TRUE
    /\ animationRef = "none"
    /\ frameRequests = 0
    /\ elapsed = FrameInterval
    /\ sinceFrame = FrameInterval
    /\ lastRender = NoRender
    /\ lastEvent = "none"
    /\ zoomRun = [from |-> ZOOM, dir |-> "none", n |-> 0]
    /\ count = [k \in Kinds |-> 0]
    /\ limits = [k \in Kinds |-> 0]

-----------------------------------------------------------------------------
(* lib/Surreal: getSurrealInstance as a process per caller, one step per   *)
(* await, and the wrapper SurrealInstance.query                            *)

Callers == 1..MaxCallers

\* surrealInstance === null
NoInstance == [created |-> 0, stage |-> "null"]

NotHanded == "none"

SurrealIdle ==
    /\ surrealInstance = NoInstance
    /\ usersession = FALSE
    /\ caller = [c \in Callers |-> [pc |-> "idle", got |-> NotHanded]]

At(c, position, handed) ==
    caller' = [caller EXCEPT ![c] = [pc |-> position, got |-> handed]]

\* return surrealInstance: the caller is handed the instance as it is now
Hand(c, stage) == At(c, "returned", stage)

\* getSurrealInstance() up to its first await, or to its return when an
\* instance is already held
getSurrealInstance(c) ==
    /\ caller[c].pc = "idle"
    /\ IF surrealInstance.stage = "null"
       THEN /\ surrealInstance' = [created |-> surrealInstance.created + 1, stage |-> "new"]
            /\ At(c, "connect", NotHanded)
       ELSE /\ Hand(c, surrealInstance.stage)
            /\ UNCHANGED surrealInstance
    /\ UNCHANGED usersession
    /\ UNCHANGED <<searchVars, graphVars, embedVars>>

\* await surrealInstance.connect(SurrealEndpoint) settles
ConnectSettles(c, ok) ==
    /\ caller[c].pc = "connect"
    /\ IF ok
       THEN /\ surrealInstance' = [surrealInstance EXCEPT !.stage = "connected"]
            /\ At(c, "use", NotHanded)
       ELSE /\ At(c, "rejected", NotHanded)
            /\ UNCHANGED surrealInstance
    /\ UNCHANGED usersession
    /\ UNCHANGED <<searchVars, graphVars, embedVars>>

\* await surrealInstance.use(...) settles; then the session is restored when
\* a token is stored, or the instance is returned
UseSettles(c, ok) ==
    /\ caller[c].pc = "use"
    /\ IF ~ok
       THEN /\ At(c, "rejected", NotHanded)
            /\ UNCHANGED surrealInstance
       ELSE IF usersession
            THEN /\ surrealInstance' = [surrealInstance EXCEPT !.stage = "used"]
                 /\ At(c, "authenticate", NotHanded)
            ELSE /\ surrealInstance' = [surrealInstance EXCEPT !.stage = "ready"]
                 /\ Hand(c, "ready")
    /\ UNCHANGED usersession
    /\ UNCHANGED <<searchVars, graphVars, embedVars>>

\* await surrealInstance.authenticate(token) settles: on failure the token
\* is removed; the instance is returned either way
AuthenticateSettles(c, ok) ==
    /\ caller[c].pc = "authenticate"
    /\ usersession' = IF ok THEN usersession ELSE FALSE
    /\ surrealInstance' = [surrealInstance EXCEPT !.stage = "ready"]
    /\ Hand(c, "ready")
    /\ UNCHANGED <<searchVars, graphVars, embedVars>>

\* SurrealInstance.query: db.query(sql, vars) on the instance handed; the
\* caller is then free to call again
query(c) ==
    /\ caller[c].pc = "returned"
    /\ At(c, "queried", caller[c].got)
    /\ UNCHANGED <<surrealInstance, usersession>>
    /\ UNCHANGED <<searchVars, graphVars, embedVars>>

\* the caller's promise has settled; it calls again later
Again(c) ==
    /\ caller[c].pc \in {"queried", "rejected"}
    /\ At(c, "idle", NotHanded)
    /\ UNCHANGED <<surrealInstance, usersession>>
    /\ UNCHANGED <<searchVars, graphVars, embedVars>>

-----------------------------------------------------------------------------
(* pages/api/team-builder: findDreamTeam on the rows of has_skill *)

\* skill names as stored and as asked for
NamePy == <<80, 121>>           \* "Py"
NamePyLower == <<112, 121>>     \* "py"
NameMl == <<109, 108>>          \* "ml"

SkillRow(emp, name, p) == [emp_id |-> emp, skill_name |-> name, proficiency |-> p]

\* FROM has_skill WHERE string::lowercase(out.name) IN $skills
employeesWithSkillsQuery(table, normalizedSkills) ==
    LET Asked(row) ==
            \E k \in 1..Len(normalizedSkills) : ToLowerCase(row.skill_name) = normalizedSkills[k]
    IN  SelectSeq(table, Asked)

Includes(list, x) == \E k \in 1..Len(list) : list[k] = x

\* the loop over the rows: employeeMap, in insertion order, after n rows
RECURSIVE GroupRows(_, _)
GroupRows(rows, n) ==
    IF n = 0 THEN <<>>
    ELSE LET map == GroupRows(rows, n - 1)
             r == rows[n]
             known == \E k \in 1..Len(map) : map[k].id = r.emp_id
             with == IF known THEN map
                     ELSE Append(map, [id |-> r.emp_id, skills |-> <<>>,
                                       totalProficiency |-> 0])
             at == CHOOSE k \in 1..Len(with) : with[k].id = r.emp_id
         IN  [with EXCEPT ![at] =
                 [@ EXCEPT !.skills = IF Includes(@, r.skill_name) THEN @
                                      ELSE Append(@, r.skill_name),
                           !.totalProficiency = @ + r.proficiency]]

\* Math.min(collabCount / 3, 1)
Compatibility(collabCount) == Min((collabCount * SCORE) \div 3, SCORE)

\* one TeamMember of the candidates list
TeamMember(emp, collabCounts, required) ==
    LET skillCoverage == (Len(emp.skills) * SCORE) \div Len(required)
        compatibilityScore == Compatibility(collabCounts[emp.id])
    IN  [id |-> emp.id, skills |-> emp.skills, skillCoverage |-> skillCoverage,
         compatibilityScore |-> compatibilityScore,
         totalScore |-> Scale(skillCoverage, 7, 10) + Scale(compatibilityScore, 3, 10)]

\* candidates.sort((a, b) => b.totalScore - a.totalScore)
SortByTotalScore(s) == SortDescBy(s, [i \in 1..Len(s) |-> s[i].totalScore])

\* the branch of the explanation
Explanation(team, uncovered) ==
    IF Len(team) = 0 THEN "none"
    ELSE IF Len(uncovered) > 0 THEN "missing"
    ELSE "perfect"

findDreamTeam(table, collabCounts, required, teamSize) ==
    IF Len(required) = 0
    THEN [team |-> <<>>, requiredSkills |-> <<>>, skillsCovered |-> {},
          skillsUncovered |-> <<>>, explanation |-> "noSkills"]
    ELSE LET normalizedSkills == [k \in 1..Len(required) |-> Trim(ToLowerCase(required[k]))]
             rows == employeesWithSkillsQuery(table, normalizedSkills)
             employeeMap == GroupRows(rows, Len(rows))
             allCoveredSkills ==
                 UNION {{employeeMap[k].skills[j] : j \in 1..Len(employeeMap[k].skills)}
                        : k \in 1..Len(employeeMap)}
             all == [k \in 1..Len(employeeMap) |->
                        TeamMember(employeeMap[k], collabCounts, required)]
             team == Slice0(SortByTotalScore(all), teamSize)
             coveredLower == {ToLowerCase(name) : name \in allCoveredSkills}
             Uncovered(name) == ToLowerCase(name) \notin coveredLower
             uncovered == SelectSeq(required, Uncovered)
         IN  [team |-> team, requiredSkills |-> required,
              skillsCovered |-> allCoveredSkills, skillsUncovered |-> uncovered,
              explanation |-> Explanation(team, uncovered)]

-----------------------------------------------------------------------------
(* The stores, requests and outages the search is run against *)

Departments == {"eng", "ops"}

Skill(id, emb) == [id |-> id, embedding |-> emb]
Employee(id, dept, emb) == [id |-> id, department |-> dept, embedding |-> emb]
Edge(in, out, p, c) == [in |-> in, out |-> out, proficiency |-> p, certified |-> c]

Request(q, dept, lim) == [query |-> q, filters |-> [department |-> dept], limit |-> lim]
NoLimit == [given |-> FALSE, value |-> 0]
Limit(n) == [given |-> TRUE, value |-> n]

\* tables of rows, ids in store order
SkillTables(embs, lens) ==
    UNION {{[k \in 1..n |-> Skill(k, f[k])] : f \in [1..n -> embs]} : n \in lens}
EmployeeTables(depts, embs, lens) ==
    UNION {{[k \in 1..n |-> Employee(k, f[k][1], f[k][2])] : f \in [1..n -> depts \X embs]}
           : n \in lens}
EdgeTables(nEmp, nSkill, grades, maxLen) ==
    SeqsUpTo({Edge(e, s, g[1], g[2]) : e \in 1..nEmp, s \in 1..nSkill, g \in grades}, maxLen)

\* a skill close to the query "ml" and one further from it
TwoSkills == <<Skill(1, Embedding(V34)), Skill(2, Embedding(V10))>>

Outages(nEmp) ==
    {NoOutage} \cup {[call |-> c, emp |-> 0] : c \in {"embed", "skills", "employees"}}
               \cup {[call |-> "has_skill", emp |-> e] : e \in 1..nEmp}

\* the store, the environment and the request of each invocation
SearchConfigs(sk, em, ed, out, reqs) ==
    /\ skills = sk
    /\ employees = em
    /\ hasSkill = ed
    /\ outage = out
    /\ request = reqs
    /\ pc = [i \in Slots |-> "idle"]
    /\ queryEmbedding = [i \in Slots |-> <<>>]
    /\ relevantSkills = [i \in Slots |-> <<>>]
    /\ empList = [i \in Slots |-> <<>>]
    /\ empIdx = [i \in Slots |-> 0]
    /\ candidates = [i \in Slots |-> <<>>]
    /\ result = [i \in Slots |-> [status |-> "pending", candidates |-> <<>>,
                                  totalMatches |-> 0]]
    /\ thrown = [i \in Slots |-> "none"]
    /\ storeCalls = [i \in Slots |-> <<>>]

\* every invocation is passed the same request
SearchConfig(sk, em, ed, out, req) == SearchConfigs(sk, em, ed, out, [i \in Slots |-> req])

InitConfig(sk, em, ed, out, req) ==
    SearchConfig(sk, em, ed, out, req) /\ GraphAbsent /\ EmbeddingIdle /\ SurrealIdle

\* one employee, every proficiency and certification on its edges
InitScoring ==
    \E emb \in {NoEmbedding, Embedding(V10), Embedding(V34), Embedding(VNeg)},
       ed \in EdgeTables(1, Len(TwoSkills), Proficiencies \X BOOLEAN, MaxEdges),
       q \in Queries :
        InitConfig(TwoSkills, <<Employee(1, "eng", emb)>>, ed, NoOutage,
                   Request(q, "", NoLimit))

\* several employees, with or without department filter and limit
InitRanking ==
    \E em \in EmployeeTables(Departments, {NoEmbedding}, {MaxEmployees}),
       ed \in EdgeTables(MaxEmployees, Len(TwoSkills), {<<4, TRUE>>, <<2, FALSE>>}, MaxEdges),
       dept \in {"", "eng"}, lim \in {NoLimit, Limit(0), Limit(1)} :
        InitConfig(TwoSkills, em, ed, NoOutage, Request(TextMl, dept, lim))

\* every outage, skills without embedding, embeddings of the wrong dimension
InitFaults ==
    \E sk \in SkillTables({NoEmbedding, Embedding(V10), Embedding(VEmpty)}, 0..MaxSkills),
       em \in EmployeeTables({"eng"}, {NoEmbedding, Embedding(VEmpty)}, 0..MaxEmployees),
       ed \in {<<>>, <<Edge(1, 1, 4, TRUE)>>, <<Edge(1, 1, 4, TRUE), Edge(2, 1, 2, FALSE)>>,
               <<Edge(2, 2, 5, FALSE)>>},
       out \in Outages(MaxEmployees), q \in Queries :
        InitConfig(sk, em, ed, out, Request(q, "", NoLimit))

InitSearch == InitScoring \/ InitRanking \/ InitFaults

\* a single invocation
NextSearch ==
    \/ StartSearch(1)
    \/ EmbedReturn(1)
    \/ SkillsReturn(1)
    \/ EmployeesReturn(1)
    \/ HasSkillReturn(1)

SpecSearch == InitSearch /\ [][NextSearch]_vars

\* two invocations, interleaved at their awaits
NextSearch2 ==
    \E i \in Slots :
        \/ StartSearch(i)
        \/ EmbedReturn(i)
        \/ SkillsReturn(i)
        \/ EmployeesReturn(i)
        \/ HasSkillReturn(i)

InitSearch2 ==
    \/ InitFaults
    \/ InitRanking /\ request = [i \in Slots |-> Request(TextMl, "", NoLimit)]

SpecSearch2 == InitSearch2 /\ [][NextSearch2]_vars

\* the requests two callers may pass
Requests ==
    {Request(q, dept, lim) : q \in Queries, dept \in {"", "eng"}, lim \in {NoLimit, Limit(1)}}

\* two invocations, each with a request of its own, against one store; the
\* has_skill query of the last employee may fail
InitSearch3 ==
    \E em \in EmployeeTables(Departments, {NoEmbedding}, {MaxEmployees}),
       ed \in {<<Edge(1, 1, 4, TRUE), Edge(2, 1, 2, FALSE)>>,
               <<Edge(1, 1, 4, TRUE), Edge(2, 2, 2, FALSE)>>,
               <<Edge(1, 2, 5, FALSE)>>},
       out \in {NoOutage, [call |-> "has_skill", emp |-> MaxEmployees]},
       reqs \in [Slots -> Requests] :
        SearchConfigs(TwoSkills, em, ed, out, reqs) /\ GraphAbsent /\ EmbeddingIdle /\ SurrealIdle

SpecSearch3 == InitSearch3 /\ [][NextSearch2]_vars

\* filters with every field of SemanticSearchQuery.filters; 0, FALSE and the
\* empty list stand for a field left out
Filters(dept, minProficiency, certified, skillIds) ==
    [department |-> dept, minProficiency |-> minProficiency, certified |-> certified,
     skills |-> skillIds]

\* two invocations whose requests differ at most in minProficiency, certified
\* and skills
InitSearch4 ==
    \E em \in EmployeeTables(Departments, {NoEmbedding}, {MaxEmployees}),
       ed \in {<<Edge(1, 1, 4, TRUE), Edge(2, 1, 2, FALSE)>>,
               <<Edge(1, 1, 4, TRUE), Edge(2, 2, 2, FALSE)>>,
               <<Edge(1, 2, 5, FALSE)>>},
       q \in Queries, dept \in {"", "eng"}, lim \in {NoLimit, Limit(1)},
       minProficiency \in {0, 5}, certified \in BOOLEAN, skillIds \in {<<>>, <<2>>} :
        /\ SearchConfigs(TwoSkills, em, ed, NoOutage,
                         <<[query |-> q, filters |-> Filters(dept, 0, FALSE, <<>>),
                            limit |-> lim],
                           [query |-> q,
                            filters |-> Filters(dept, minProficiency, certified, skillIds),
                            limit |-> lim]>>)
        /\ GraphAbsent /\ EmbeddingIdle /\ SurrealIdle

SpecSearch4 == InitSearch4 /\ [][NextSearch2]_vars

-----------------------------------------------------------------------------
(* cosineSimilarity on its own, and the embedding providers *)

SearchIdle == SearchConfig(<<>>, <<>>, <<>>, NoOutage, Request(TextMl, "", NoLimit))

Coordinates == {-4, -3, 0, 3, 4}

\* the vectors of up to MaxDim coordinates whose norm is an integer
Vectors ==
    {v \in SeqsUpTo(Coordinates, MaxDim) : Sqrt(Dot(v, v)) >= 0}

InitCosine ==
    /\ \E a \in Vectors, b \in Vectors : args = <<a, b>>
    /\ currentConfig = DefaultConfig("")
    /\ embedded = <<>>
    /\ returned = NotCalled
    /\ SearchIdle /\ GraphAbsent /\ SurrealIdle

NextCosine == CosineCall

SpecCosine == InitCosine /\ [][NextCosine]_vars

\* relevances above the floor, up to 1: the floor plus 0.0025, and every
\* multiple of 0.025 (the scores stay exact)
Relevances ==
    {r \in (RelevanceFloor + 1)..SCORE : r % 250 = 0 \/ r = RelevanceFloor + 25}

\* the scoring and ranking part of mutationFn, from the relevant skills on,
\* for two employees in fetch order with one has_skill edge each; skill 1 has
\* relevance r1 and skill 2 relevance r2
Rank(scenario) ==
    LET qe == V34
        rel == SortByRelevance(<<[skill |-> 1, relevance |-> scenario.r1],
                                 [skill |-> 2, relevance |-> scenario.r2]>>)
        table == scenario.edges
        EdgesOf(id) == LET OfEmp(e) == e.in = id IN SelectSeq(table, OfEmp)
        first == scenario.fetched[1]
        second == scenario.fetched[2]
        one == ScoreEmployee(<<>>, qe, rel, first, EdgesOf(first.id))
        two == ScoreEmployee(one.candidates, qe, rel, second, EdgesOf(second.id))
    IN  SuccessResult(two.candidates, NoLimit)

\* E1 holds one relevant skill at proficiency 4, certified; E2 one at
\* proficiency 2, not certified; both have the same embedding, or none
InitRanked ==
    /\ \E r1 \in Relevances, r2 \in Relevances, s1 \in 1..2, s2 \in 1..2,
          emb \in {NoEmbedding, Embedding(V34), Embedding(V10), Embedding(VNeg)},
          e1First \in BOOLEAN :
          LET E1 == Employee(1, "eng", emb)
              E2 == Employee(2, "eng", emb)
          IN  args = [r1 |-> r1, r2 |-> r2,
                      edges |-> <<Edge(1, s1, 4, TRUE), Edge(2, s2, 2, FALSE)>>,
                      fetched |-> IF e1First THEN <<E1, E2>> ELSE <<E2, E1>>]
    /\ currentConfig = DefaultConfig("")
    /\ embedded = <<>>
    /\ returned = NotCalled
    /\ SearchIdle /\ GraphAbsent /\ SurrealIdle

RankCall ==
    /\ ~returned.called
    /\ returned' = Called(Rank(args))
    /\ UNCHANGED <<currentConfig, embedded, args>>
    /\ UNCHANGED <<searchVars, graphVars, dbVars>>

NextRanked == RankCall

SpecRanked == InitRanked /\ [][NextRanked]_vars

\* the values of EMBEDDING_BINDING
Bindings == {"", "local", "openai", "ollama"}

InitProviders ==
    /\ \E binding \in Bindings : currentConfig = DefaultConfig(binding)
    /\ embedded = <<>>
    /\ args = <<>>
    /\ returned = NotCalled
    /\ SearchIdle /\ GraphAbsent /\ SurrealIdle

NextProviders ==
    \/ \E change \in ConfigChanges : setEmbeddingConfig(change)
    \/ \E text \in Queries, remote \in RemoteOutcomes : GenerateEmbedding(text, remote)
    \/ \E a \in 1..MaxEmbedded, b \in 1..MaxEmbedded : Compare(a, b)

SpecProviders == InitProviders /\ [][NextProviders]_vars

\* callers of getSurrealInstance at startup, with or without a stored session
InitSurreal ==
    /\ surrealInstance = NoInstance
    /\ usersession \in BOOLEAN
    /\ caller = [c \in Callers |-> [pc |-> "idle", got |-> NotHanded]]
    /\ SearchIdle /\ GraphAbsent /\ EmbeddingIdle

NextSurreal ==
    \E c \in Callers :
        \/ getSurrealInstance(c)
        \/ \E ok \in BOOLEAN : ConnectSettles(c, ok)
        \/ \E ok \in BOOLEAN : UseSettles(c, ok)
        \/ \E ok \in BOOLEAN : AuthenticateSettles(c, ok)
        \/ query(c)
        \/ Again(c)

SpecSurreal == InitSurreal /\ [][NextSurreal]_vars

\* findDreamTeam on small has_skill tables, collaboration counts and requests
TeamTables ==
    SeqsUpTo({SkillRow(e, name, 3) : e \in 1..2, name \in {NamePy, NameMl}}, 2)

InitTeam ==
    /\ \E table \in TeamTables, collabCounts \in [1..2 -> {0, 3}],
          required \in {<<NamePy>>, <<NameMl>>, <<NamePyLower, NameMl>>, <<NamePy, NameMl>>},
          teamSize \in {1, 2} :
           args = [table |-> table, collabCounts |-> collabCounts, skills |-> required,
                   teamSize |-> teamSize]
    /\ currentConfig = DefaultConfig("")
    /\ embedded = <<>>
    /\ returned = NotCalled
    /\ SearchIdle /\ GraphAbsent /\ SurrealIdle

TeamCall ==
    /\ ~returned.called
    /\ returned' = Called(findDreamTeam(args.table, args.collabCounts, args.skills,
                                        args.teamSize))
    /\ UNCHANGED <<currentConfig, embedded, args>>
    /\ UNCHANGED <<searchVars, graphVars, dbVars>>

NextTeam == TeamCall

SpecTeam == InitTeam /\ [][NextTeam]_vars

-----------------------------------------------------------------------------
(* The visualizer on its own page *)

Limits(t, f, s, a, p, z, g, u) ==
    [ticks |-> t, frames |-> f, skips |-> s, arrivals |-> a, pointer |-> p, zooms |-> z,
     toggles |-> g, unmounts |-> u]

Session(emps, sks, lim) == [employees |-> emps, skills |-> sks, limits |-> lim]

\* the sessions explored: what the query cache holds when the page opens, and
\* how many events of each kind follow
Sessions ==
    {\* at the view controls of an empty graph
     Session(<<"e1">>, <<"s1">>, Limits(0, 0, 0, 0, 0, MaxZoomOps, 0, 0)),
     \* a first load, up to the first node set
     Session(<<>>, <<>>, Limits(0, 1, 1, MaxArrivals + 1, 1, 0, 1, 1)),
     \* drags between ticks
     Session(<<"e1", "e2">>, <<"s1">>, Limits(1, 0, 0, 1, MaxPointerOps, 0, 0, 0)),
     \* the simulation left to itself, paused and resumed
     Session(<<"e1", "e2">>, <<"s1">>, Limits(MaxTicks, 1, 0, 1, 1, 0, 2, 0)),
     \* pointer-down on a zoomed view
     Session(<<"e1">>, <<"s1">>, Limits(0, 0, 0, 1, 2, 2, 0, 0)),
     \* two refetches during a drag
     Session(<<"e1">>, <<"s1">>, Limits(1, 0, 0, 2, 2, 0, 0, 0))}

InitGraph ==
    /\ \E session \in Sessions :
          GraphConstructed(session.employees, session.skills, session.limits)
    /\ SearchConfig(<<>>, <<>>, <<>>, NoOutage, Request(TextMl, "", NoLimit))
    /\ EmbeddingIdle
    /\ SurrealIdle

NextGraph ==
    \/ \E hook \in {"employees"}, data \in EmployeeData, draw \in Draws :
          DataArrives(hook, data, draw)
    \/ \E hook \in {"skills"}, data \in SkillData, draw \in Draws :
          DataArrives(hook, data, draw)
    \/ \E outcome \in FetchOutcomes : FetchEdgesSettles(outcome)
    \/ \E period \in FramePeriods : animate(period)
    \/ \E p \in PointerPoints : handleMouseDown(p)
    \/ \E p \in PointerPoints : handleMouseMove(p)
    \/ handleMouseUp
    \/ toggleSimulation
    \/ ZoomIn
    \/ ZoomOut
    \/ resetView
    \/ Unmount

SpecGraph == InitGraph /\ [][NextGraph]_vars

\* @claims
-----------------------------------------------------------------------------
(* Properties of the search *)

Done(i) == pc[i] = "done"
Succeeded(i) == Done(i) /\ thrown[i] = "none"

\* the candidates an invocation holds: those pushed so far and those returned
Held(i) ==
    {candidates[i][k] : k \in 1..Len(candidates[i])}
        \cup {result[i].candidates[k] : k \in 1..Len(result[i].candidates)}

EmployeeById(id) == employees[CHOOSE k \in 1..Len(employees) : employees[k].id = id]

RelevantIds(i) == {relevantSkills[i][k].skill : k \in 1..Len(relevantSkills[i])}

RelevanceOf(i, id) ==
    relevantSkills[i][CHOOSE k \in 1..Len(relevantSkills[i]) :
                          relevantSkills[i][k].skill = id].relevance

\* positions in the has_skill table of an employee's edges to relevant skills
MatchedEdges(i, empId) ==
    {k \in 1..Len(hasSkill) : hasSkill[k].in = empId /\ hasSkill[k].out \in RelevantIds(i)}

RECURSIVE SumOver(_, _)
SumOver(S, f) ==
    IF S = {} THEN 0
    ELSE LET x == CHOOSE x \in S : TRUE IN f[x] + SumOver(S \ {x}, f)

\* every division the scoring performed was exact, so the integers of the
\* model are the reals of the code
ExactScores ==
    \A i \in Slots :
        /\ \A k \in 1..Len(relevantSkills[i]) :
              \A pr \in Proficiencies : (pr * relevantSkills[i][k].relevance) % MaxProficiency = 0
        /\ \A c \in Held(i) :
              (c.graphScore * 6) % 10 = 0 /\ (c.semanticScore * 4) % 10 = 0

\* C1: every returned candidate has matchScore, semanticScore and graphScore
\* in [0,1]
C1_ScoresInUnitInterval ==
    \A i \in Slots : \A c \in Held(i) :
        /\ 0 <= c.matchScore /\ c.matchScore <= SCORE
        /\ 0 <= c.semanticScore /\ c.semanticScore <= SCORE
        /\ 0 <= c.graphScore /\ c.graphScore <= SCORE

\* C2: search never throws: the promise never rejects, and a run that met a
\* rejected embedding call, a rejected store query or a dimension mismatch
\* resolves with candidates = [] and totalMatches = 0
C2_NeverThrows ==
    \A i \in Slots :
        /\ result[i].status # "rejected"
        /\ Done(i) => result[i].status = "resolved"
        /\ (Done(i) /\ thrown[i] # "none") =>
              (result[i].candidates = <<>> /\ result[i].totalMatches = 0)

\* a dimension mismatch raised in the scoring loop after a candidate had
\* already been pushed
C2_Witness ==
    \E i \in Slots : Done(i) /\ thrown[i] = "mismatch" /\ candidates[i] # <<>>

\* C3: every candidate has a non-empty matchedSkills list; an employee with
\* no has_skill edge to a relevant skill is not a candidate and is not
\* counted in totalMatches
C3_OnlyMatchedEmployees ==
    \A i \in Slots :
        /\ \A c \in Held(i) : c.matchedSkills # <<>> /\ MatchedEdges(i, c.employee) # {}
        /\ Succeeded(i) /\ relevantSkills[i] # <<>> =>
              result[i].totalMatches =
                  Cardinality({k \in 1..Len(empList[i]) :
                                  MatchedEdges(i, empList[i][k].id) # {}})

\* an employee with an embedding similar to the query but no matched skill
\* was scored and left out
C3_Witness ==
    \E i \in Slots :
        /\ Succeeded(i) /\ relevantSkills[i] # <<>>
        /\ \E k \in 1..Len(empList[i]) :
              /\ empList[i][k].embedding.present
              /\ SemanticScore(queryEmbedding[i], empList[i][k]).val > DefaultSemanticScore
              /\ HasSkillQuery(empList[i][k].id) # <<>>
              /\ MatchedEdges(i, empList[i][k].id) = {}
              /\ \A c \in Held(i) : c.employee # empList[i][k].id

\* C9: graphScore is the sum, over the employee's edges to relevant skills,
\* of (p/5)*r plus 0.1 iff the edge is certified (stated times 5)
C9_GraphScoreSum ==
    \A i \in Slots : \A c \in Held(i) :
        LET M == MatchedEdges(i, c.employee)
            term == [k \in M |->
                        hasSkill[k].proficiency * RelevanceOf(i, hasSkill[k].out)
                        + (IF hasSkill[k].certified THEN 5 * CertifiedBonus ELSE 0)]
        IN  /\ 5 * c.graphScore = SumOver(M, term)
            /\ \A k \in M :
                  (HasSkillQuery(c.employee) = <<hasSkill[k]>>) =>
                      /\ hasSkill[k].certified =>
                            5 * c.graphScore =
                                hasSkill[k].proficiency * RelevanceOf(i, hasSkill[k].out) + 5000
                      /\ ~hasSkill[k].certified =>
                            5 * c.graphScore =
                                hasSkill[k].proficiency * RelevanceOf(i, hasSkill[k].out)

\* a candidate with a single, certified edge
C9_Witness ==
    \E i \in Slots : \E c \in Held(i) :
        /\ Len(HasSkillQuery(c.employee)) = 1
        /\ HasSkillQuery(c.employee)[1].certified
        /\ HasSkillQuery(c.employee)[1].proficiency = 3

\* C10: matchScore = graphScore*0.6 + semanticScore*0.4, with semanticScore
\* the cosine similarity of the query and the employee's embedding when the
\* employee has one and 0.5 otherwise
C10_MatchScoreFusion ==
    \A i \in Slots : \A c \in Held(i) :
        LET emb == EmployeeById(c.employee).embedding
            qe == queryEmbedding[i]
        IN  /\ 10 * c.matchScore = 6 * c.graphScore + 4 * c.semanticScore
            /\ ~emb.present => c.semanticScore = 5000
            /\ emb.present =>
                  /\ Len(emb.vec) = Len(qe)
                  /\ c.semanticScore * Sqrt(Dot(qe, qe)) * Sqrt(Dot(emb.vec, emb.vec))
                        = Dot(qe, emb.vec) * SCORE

\* a returned candidate whose employee has an embedding
C10_Witness ==
    \E i \in Slots :
        /\ Succeeded(i)
        /\ \E k \in 1..Len(result[i].candidates) :
              /\ EmployeeById(result[i].candidates[k].employee).embedding.present
              /\ result[i].candidates[k].semanticScore < 0

C15_CertifiedProficientRanksFirst ==
    returned.called =>
        LET r == returned.value.candidates
        IN  /\ returned.value.totalMatches = 2
            /\ Len(r) = 2
            /\ r[1].employee = 1 /\ r[2].employee = 2
            /\ r[1].semanticScore = r[2].semanticScore
            /\ r[1].matchScore > r[2].matchScore
            /\ (r[1].graphScore * 6) % 10 = 0 /\ (r[2].graphScore * 6) % 10 = 0

\* E1's skill is just above the floor, E2's has relevance 1, and E2 was
\* fetched first
C15_Witness ==
    /\ returned.called
    /\ args.edges = <<Edge(1, 1, 4, TRUE), Edge(2, 2, 2, FALSE)>>
    /\ args.r1 = RelevanceFloor + 25 /\ args.r2 = SCORE
    /\ args.fetched[1].id = 2
    /\ returned.value.candidates[1].employee = 1

IsZero(v) == \A k \in 1..Len(v) : v[k] = 0

\* C13: cosineSimilarity(a, b) raises the dimension-mismatch error whenever a
\* and b differ in length, one of them empty included (and only then), and
\* returns no value computed from a cut or padded vector
C13_MismatchRaises ==
    returned.called =>
        LET a == args[1]
            b == args[2]
        IN  /\ Len(a) # Len(b) => returned.value.threw /\ returned.value.val = 0
            /\ Len(a) = Len(b) => ~returned.value.threw

\* called with an empty vector and a vector of two coordinates
C13_Witness ==
    /\ returned.called
    /\ args = <<<<>>, <<3, 4>>>>
    /\ returned.value.threw

\* C14: for vectors of equal length cosineSimilarity returns 0 when a or b
\* is the zero vector, two empty vectors included; it returns a number between
\* -1 and 1 in every case (no division by zero, no NaN)
C14_ZeroVectorGivesZero ==
    (returned.called /\ Len(args[1]) = Len(args[2])) =>
        /\ ~returned.value.threw
        /\ (IsZero(args[1]) \/ IsZero(args[2])) => returned.value.val = 0
        /\ -SCORE <= returned.value.val /\ returned.value.val <= SCORE

\* called with a zero vector and a non-zero vector of the same length
C14_Witness ==
    /\ returned.called
    /\ args = <<<<0, 0>>, <<3, 4>>>>
    /\ returned.value = [threw |-> FALSE, val |-> 0]

\* the skill passes the relevance floor for the query of invocation i
PassesFloor(i, skill) ==
    /\ skill.embedding.present
    /\ LET sim == cosineSimilarity(MockGenerate(request[i].query), skill.embedding.vec)
       IN  ~sim.threw /\ 10 * sim.val > 4 * SCORE

NoSkillPasses(i) == \A k \in 1..Len(skills) : ~PassesFloor(i, skills[k])

\* C12: when no skill passes the relevance floor the search returns
\* candidates = [] and totalMatches = 0, and the only query it ever issues to
\* the store is the skill fetch: no employee query, no has_skill query
C12_NoRelevantSkillNoEmployeeQuery ==
    \A i \in Slots :
        NoSkillPasses(i) =>
            /\ storeCalls[i] \in {<<>>, <<"skill">>}
            /\ Done(i) =>
                  /\ result[i].status = "resolved"
                  /\ result[i].candidates = <<>>
                  /\ result[i].totalMatches = 0
            /\ Succeeded(i) => storeCalls[i] = <<"skill">>

\* a search over a store with employees and edges returned early: one skill
\* has an embedding unlike the query, the other has none
C12_Witness ==
    \E i \in Slots :
        /\ Succeeded(i)
        /\ NoSkillPasses(i)
        /\ \E k \in 1..Len(skills) : skills[k].embedding.present
        /\ \E k \in 1..Len(skills) : ~skills[k].embedding.present
        /\ employees # <<>> /\ hasSkill # <<>>
        /\ storeCalls[i] = <<"skill">>

\* the employees fetched that have an edge to a relevant skill
MatchedEmployees(i) ==
    {empList[i][k].id : k \in {j \in 1..Len(empList[i]) :
                                  MatchedEdges(i, empList[i][j].id) # {}}}

\* position of an employee in the list the employee query returned
FetchPosition(i, empId) ==
    CHOOSE k \in 1..Len(empList[i]) : empList[i][k].id = empId

\* c is ranked before d: higher matchScore, or equal and fetched earlier
RankedBefore(i, c, d) ==
    \/ c.matchScore > d.matchScore
    \/ /\ c.matchScore = d.matchScore
       /\ FetchPosition(i, c.employee) < FetchPosition(i, d.employee)

\* C11: the candidates returned are the matched employees sorted by
\* matchScore descending, equal scores in store-fetch order, cut to the first
\* 'limit' (default 10); totalMatches counts the matched employees before the
\* cut, so candidates.length = min(limit, totalMatches)
C11_RankedAndTruncated ==
    \A i \in Slots :
        (Succeeded(i) /\ relevantSkills[i] # <<>>) =>
            LET r == result[i].candidates
                all == {candidates[i][k] : k \in 1..Len(candidates[i])}
                kept == {r[k] : k \in 1..Len(r)}
                limit == IF request[i].limit.given THEN request[i].limit.value ELSE 10
            IN  /\ {c.employee : c \in all} = MatchedEmployees(i)
                /\ Len(candidates[i]) = Cardinality(MatchedEmployees(i))
                /\ result[i].totalMatches = Cardinality(MatchedEmployees(i))
                /\ Len(r) = IF limit < result[i].totalMatches
                            THEN limit ELSE result[i].totalMatches
                /\ kept \subseteq all
                /\ \A j \in 1..Len(r) : \A k \in (j + 1)..Len(r) :
                      RankedBefore(i, r[j], r[k])
                /\ \A c \in all \ kept : \A k \in 1..Len(r) : RankedBefore(i, r[k], c)

\* two matched employees of equal matchScore under limit 1: the one fetched
\* first was returned
C11_Witness ==
    \E i \in Slots :
        /\ Succeeded(i)
        /\ request[i].limit = Limit(1)
        /\ result[i].totalMatches = 2
        /\ candidates[i][1].matchScore = candidates[i][2].matchScore
        /\ Len(result[i].candidates) = 1

-----------------------------------------------------------------------------
(* Properties of the visualizer *)

NodeIds(ns) == {ns[k].id : k \in 1..Len(ns)}
NodeOf(ns, id) == ns[FindIndex(ns, id)]
Position(node) == <<node.nan, node.x, node.y>>

Present(ids, edge) == edge.source \in ids /\ edge.target \in ids

\* a finite position inside the margins of the canvas
WithinMargins(node) ==
    /\ ~node.nan
    /\ Px(Margin) <= node.x /\ node.x <= Px(CanvasWidth - Margin)
    /\ Px(Margin) <= node.y /\ node.y <= Px(CanvasHeight - Margin)

\* the nodes without the one of the given id, the edges that do not touch it
Without(ns, id) == LET Other(node) == node.id # id IN SelectSeq(ns, Other)
Apart(es, id) == LET Away(edge) == edge.source # id /\ edge.target # id IN SelectSeq(es, Away)

\* what the node d contributes to the force on node: its repulsion, and the
\* pull of every edge between the two
ForceOf(node, d, es) ==
    AddForce(Repulsion(node, d),
             SumForces([k \in 1..Len(es) |->
                           IF \/ es[k].source = node.id /\ es[k].target = d.id
                              \/ es[k].target = node.id /\ es[k].source = d.id
                           THEN Attraction(node, d, es[k]) ELSE NoForce]))

\* a tick with node d dragged: d keeps position and velocity, and the first
\* node the loop simulates moves under the force of the graph without d plus
\* what d contributes
TickAround(d) ==
    LET i == CHOOSE k \in 1..Len(nodes) :
                 nodes[k].id # d /\ \A j \in 1..(k - 1) : nodes[j].id = d
        rest == Without(nodes, d)
    IN /\ NodeOf(nodes', d) = NodeOf(nodes, d)
       /\ (\E k \in 1..Len(nodes) : nodes[k].id # d) =>
             nodes'[i] = Bounce(Advance(nodes[i],
                             AddForce(Force(rest, Apart(edges, d), FindIndex(rest, nodes[i].id)),
                                      ForceOf(nodes[i], NodeOf(nodes, d), edges))))

\* a step taken while a node of the node set is dragged: its position changes
\* only in the events given, and a tick goes around it
DragStep(events) ==
    (draggingNode # Null /\ HasNode(nodes, draggingNode)) =>
        /\ (/\ HasNode(nodes', draggingNode)
            /\ Position(NodeOf(nodes', draggingNode)) # Position(NodeOf(nodes, draggingNode)))
               => lastEvent' \in events
        /\ lastEvent' = "tick" => TickAround(draggingNode)

\* C4: while a node is dragged its position is changed only by a
\* pointer-move, whatever else happens (ticks, zoom, toggle, data arrival);
\* a tick leaves its position and velocity alone and still uses it as
\* repulsion source and edge endpoint for the other nodes
C4_DraggedMovedOnlyByPointer == [][DragStep({"move"})]_vars

\* what does hold of a dragged node: its position is changed only by a
\* pointer-move or by a data arrival, which replaces the whole node set at
\* newly drawn positions; a tick leaves its position and velocity alone and
\* still uses it as repulsion source and edge endpoint for the other nodes
DraggedMovedByPointerOrReload == [][DragStep({"move", "data"})]_vars

\* a tick has just run around a dragged node that repels another node and
\* shares an edge with it
DraggedTickWitness ==
    /\ lastEvent = "tick"
    /\ draggingNode # Null
    /\ HasNode(nodes, draggingNode)
    /\ \E k \in 1..Len(nodes) :
          /\ nodes[k].id # draggingNode
          /\ ~nodes[k].nan
          /\ Repulsion(nodes[k], NodeOf(nodes, draggingNode)) # NoForce
          /\ \E e \in 1..Len(edges) :
                Present({nodes[k].id, draggingNode}, edges[e])
                    /\ edges[e].source # edges[e].target

RECURSIVE Grow(_, _)
Grow(z, n) == IF n = 0 THEN z ELSE Grow(Div(z * 12, 10), n - 1)
RECURSIVE Shrink(_, _)
Shrink(z, n) == IF n = 0 THEN z ELSE Shrink(Div(z * 10, 12), n - 1)

\* C5: the zoom level stays within [0.5, 3]; a run of n zoom-ins from level z
\* leaves min(z * 1.2^n, 3) and a run of n zoom-outs max(z / 1.2^n, 0.5), so
\* ten zoom-ins from 1.0 leave exactly 3.0 and ten zoom-outs exactly 0.5
C5_ZoomClamped ==
    /\ MinZoom <= zoom /\ zoom <= MaxZoom
    /\ zoomRun.dir = "none" => zoom = ZOOM
    /\ zoomRun.dir = "in" => zoom = Min(Grow(zoomRun.from, zoomRun.n), MaxZoom)
    /\ zoomRun.dir = "out" => zoom = Max(Shrink(zoomRun.from, zoomRun.n), MinZoom)
    /\ (zoomRun.dir = "in" /\ zoomRun.from = ZOOM /\ zoomRun.n >= 10) => zoom = 3 * ZOOM
    /\ (zoomRun.dir = "out" /\ zoomRun.n >= 10) => 2 * zoom = ZOOM

\* ten zoom-ins in a row from 1.0
C5_Witness ==
    /\ zoomRun = [from |-> ZOOM, dir |-> "in", n |-> 10]
    /\ zoom = MaxZoom

\* C6: a tick puts a node whose advanced position is beyond a margin back on
\* that margin with the velocity component reversed and halved; hence after
\* every tick every simulated node lies within the margins
C6_BounceKeepsNodesInside ==
    [][lastEvent' = "tick" =>
          \A i \in 1..Len(nodes) :
              ~IsSkipped(nodes[i], draggingNode) =>
                  LET found == StepFrom(nodes, edges, 1, i - 1, draggingNode)
                      adv == Advance(found[i], Force(found, edges, i))
                  IN /\ (~adv.nan /\ adv.x < Px(Margin)) =>
                            nodes'[i].x = Px(Margin) /\ nodes'[i].vx = Div(-adv.vx, 2)
                     /\ (~adv.nan /\ adv.x > Px(CanvasWidth - Margin)) =>
                            /\ nodes'[i].x = Px(CanvasWidth - Margin)
                            /\ nodes'[i].vx = Div(-adv.vx, 2)
                     /\ (~adv.nan /\ adv.y < Px(Margin)) =>
                            nodes'[i].y = Px(Margin) /\ nodes'[i].vy = Div(-adv.vy, 2)
                     /\ (~adv.nan /\ adv.y > Px(CanvasHeight - Margin)) =>
                            /\ nodes'[i].y = Px(CanvasHeight - Margin)
                            /\ nodes'[i].vy = Div(-adv.vy, 2)
                     /\ WithinMargins(nodes'[i])]_vars

\* C7: every edge of the edge set has both endpoints in the current node
\* set, an edge whose endpoint is absent having been dropped from the set
C7_EdgesWithinNodeSet ==
    \A k \in 1..Len(edges) : Present(NodeIds(nodes), edges[k])

\* the edges a render pass drew are those it read whose endpoints it found
RenderSkipsDangling ==
    LET ids == {lastRender.nodeIds[k] : k \in 1..Len(lastRender.nodeIds)}
        Found(edge) == Present(ids, edge)
    IN lastRender.drawn = SelectSeq(lastRender.edges, Found)

\* what does hold of an edge with an absent endpoint: it stays in the edge
\* set, which only a settled edge fetch replaces; every render pass skips it,
\* silently, and draws exactly the edges whose endpoints are both present
DanglingEdgesSkipped ==
    [][(edges' # edges => lastEvent' = "edges") /\ RenderSkipsDangling']_vars

\* a render pass has just drawn one edge and skipped another, whose endpoint
\* is absent and which is still in the edge set
DanglingEdgeWitness ==
    /\ lastEvent \in {"tick", "frame"}
    /\ lastRender.edges = edges
    /\ Len(lastRender.drawn) > 0
    /\ \E k \in 1..Len(edges) :
          /\ ~Present(NodeIds(nodes), edges[k])
          /\ \A j \in 1..Len(lastRender.drawn) : lastRender.drawn[j] # edges[k]

\* squared distance on the canvas, in 1/UNIT pixels, between the point p and
\* the place the node is drawn at
DrawnDistSq(node, p) ==
    LET c == ToScreen(node, zoom, pan)
    IN  (Px(p[1]) - c.x) * (Px(p[1]) - c.x) + (Px(p[2]) - c.y) * (Px(p[2]) - c.y)

\* radius of the circle the node is drawn as
DrawnRadius(node) == Div(node.radius * zoom, ZOOM)

\* the point is inside (outside) the drawn circle by more than a pixel
ClearlyInside(node, p) ==
    /\ ~node.nan
    /\ DrawnRadius(node) > UNIT
    /\ DrawnDistSq(node, p) < (DrawnRadius(node) - UNIT) * (DrawnRadius(node) - UNIT)
ClearlyOutside(node, p) ==
    \/ node.nan
    \/ DrawnDistSq(node, p) > (DrawnRadius(node) + UNIT) * (DrawnRadius(node) + UNIT)

\* C16: pointer-down undoes the pan/zoom transform of render and tests the
\* nodes by squared distance against squared radius: a point inside the drawn
\* circle of a node makes a node under it both selected and dragged; a point
\* inside no node clears the selection and makes no node dragged
C16_PointerDownHitTest ==
    [][\A p \in PointerPoints :
          handleMouseDown(p) =>
              LET all == 1..Len(nodes)
                  inside == {k \in all : ClearlyInside(nodes[k], p)}
                  outside == {k \in all : ClearlyOutside(nodes[k], p)}
              IN  /\ inside # {} =>
                        \E k \in all \ outside :
                            /\ selectedNode' = [id |-> nodes[k].id, epoch |-> nodesEpoch]
                            /\ draggingNode' = nodes[k].id
                  /\ outside = all =>
                        selectedNode' = NoSelection /\ draggingNode' = draggingNode
                  /\ selectedNode' # NoSelection => draggingNode' = selectedNode'.id]_vars

\* at a zoom other than 1, a pointer-down has hit a node that is drawn away
\* from the place it has in the world
C16_Witness ==
    /\ lastEvent = "down"
    /\ zoom # ZOOM
    /\ selectedNode # NoSelection
    /\ draggingNode = selectedNode.id
    /\ HasNode(nodes, draggingNode)
    /\ ToScreen(NodeOf(nodes, draggingNode), zoom, pan).x # NodeOf(nodes, draggingNode).x

\* the tick simulated every node: each moved under the forces of the nodes as
\* the loop found them
AllSimulated ==
    \A i \in 1..Len(nodes) :
        LET found == StepFrom(nodes, edges, 1, i - 1, Null)
        IN  nodes'[i] = Bounce(Advance(found[i], Force(found, edges, i)))

\* C17: a node becomes dragged only by a pointer-down that hit it and stops
\* being dragged only by a pointer-up (or pointer-leave); after every
\* pointer-up no node is dragged and the selection is as before; from the
\* next tick on the released node is simulated like every other node
C17_DragEndsWithPointerUp ==
    [][/\ (draggingNode' # draggingNode /\ draggingNode' # Null) =>
              /\ lastEvent' = "down"
              /\ selectedNode'.id = draggingNode'
              /\ HasNode(nodes, draggingNode')
       /\ (draggingNode' # draggingNode /\ draggingNode' = Null) => lastEvent' = "up"
       /\ lastEvent' = "up" => (draggingNode' = Null /\ selectedNode' = selectedNode)
       /\ (lastEvent' = "tick" /\ draggingNode = Null) => AllSimulated]_vars

\* a node was dragged next to another and released; it is still selected,
\* and the tick after the release has pushed it away
C17_Witness ==
    /\ lastEvent = "tick"
    /\ draggingNode = Null
    /\ selectedNode.id = "e1" /\ selectedNode.epoch = nodesEpoch
    /\ HasNode(nodes, "e1")
    /\ ~NodeOf(nodes, "e1").nan
    /\ NodeOf(nodes, "e1").x # Px(640)
    /\ Abs(NodeOf(nodes, "e1").x - Px(640)) <= Px(MaxVel)
    /\ NodeOf(nodes, "e1").vx # 0

\* the for-of over the employees fetched, run without interruption: threw, or
\* the candidates list after the first n employees
RECURSIVE AloneLoop(_, _, _, _)
AloneLoop(qe, rel, emps, n) ==
    IF n = 0 THEN [threw |-> FALSE, candidates |-> <<>>]
    ELSE LET before == AloneLoop(qe, rel, emps, n - 1)
         IN  IF before.threw THEN before
             ELSE IF Rejects("has_skill", emps[n].id)
                  THEN [threw |-> TRUE, candidates |-> before.candidates]
                  ELSE ScoreEmployee(before.candidates, qe, rel, emps[n],
                                     HasSkillQuery(emps[n].id))

\* the result of the request when its invocation is the only one running
\* against the store
AloneResult(req) ==
    IF Rejects("embed", 0) THEN CatchResult
    ELSE LET qe == generateEmbedding(req.query)
         IN  IF Rejects("skills", 0) \/ RelevanceThrows(qe, skills) THEN CatchResult
             ELSE LET rel == RelevantSkills(qe, skills)
                      emps == EmployeeQuery(req.filters)
                      loop == AloneLoop(qe, rel, emps, Len(emps))
                  IN  IF Len(rel) = 0 THEN NoSkillsResult
                      ELSE IF Rejects("employees", 0) \/ loop.threw THEN CatchResult
                      ELSE SuccessResult(loop.candidates, req.limit)

FetchesSettled == settled = Hooks /\ inflight = 0

\* C18: whatever the outcome of the employee, skill and edge fetches (success,
\* failure, an empty employee or skill list), the visualizer leaves the
\* loading state and shows the canvas: once no fetch is under way, loading is
\* over
C18_LoadingEnds ==
    (mounted /\ FetchesSettled) => ~loading

\* C19: when the configured provider fails (the remote OpenAI or Ollama call
\* errors or times out, or the OpenAI key is missing), generate returns a
\* fallback embedding of the provider's declared dimensionality, so a
\* similarity against an embedding that provider produced earlier is still
\* computable (no dimension mismatch)
C19_FallbackInvisible ==
    /\ \A i \in 1..Len(embedded) :
           embedded[i].fellBack =>
               Len(embedded[i].vec) * DimensionUnit = dimensions(embedded[i].provider)
    /\ \A a \in 1..Len(embedded), b \in 1..Len(embedded) :
           (a < b /\ embedded[a].provider = embedded[b].provider /\ embedded[b].fellBack)
               => ~cosineSimilarity(embedded[a].vec, embedded[b].vec).threw

\* the employee and skill data have loaded and the edge fetch has resolved
GraphLoaded ==
    /\ mounted /\ ~loading /\ inflight = 0
    /\ kgEmployees # <<>> /\ kgSkills # <<>>

\* C21: once the employee and skill data have loaded and the edge fetch has
\* resolved, the node set holds one node per employee and one per skill, with
\* no further event needed, and every frame executed from then on renders
\* that populated node set
C21_NodesPopulatedAfterLoad ==
    GraphLoaded =>
        /\ Len(nodes) = Len(kgEmployees) + Len(kgSkills)
        /\ NodeIds(nodes) = {kgEmployees[k] : k \in 1..Len(kgEmployees)}
                                \cup {kgSkills[k] : k \in 1..Len(kgSkills)}
        /\ lastEvent \in {"tick", "frame"} => Len(lastRender.nodeIds) = Len(nodes)

\* C22: an animation callback re-requests one next frame whether or not it
\* executed, it executes at most one simulate-step and one render-pass, and
\* an executed frame comes at least 16 ms after the executed frame before it,
\* also across changes of zoom, selection or drag state
C22_FramesSixteenApart ==
    [][\A period \in FramePeriods :
           animate(period) =>
               /\ animationRef' = "pending"
               /\ lastEvent' \in {"tick", "frame"} => sinceFrame + period >= FrameInterval]_vars

\* C23: toggle simulation flips the simulating flag, so that two toggles
\* restore it, and changes neither zoom, pan, selection, drag state, nodes nor
\* edges; while the flag is off no executed frame changes a node, and every
\* executed frame renders the nodes and edges as they are
C23_ToggleGatesTheStep ==
    [][/\ toggleSimulation =>
              /\ isSimulatingRef' = ~isSimulatingRef
              /\ isSimulating' = isSimulatingRef'
              /\ isSimulatingRef' <=> (count'.toggles % 2 = 0)
              /\ UNCHANGED <<zoom, pan, selectedNode, draggingNode, nodes, edges>>
       /\ \A period \in FramePeriods :
              (lastEvent' \in {"tick", "frame", "skip"} /\ animate(period)) =>
                  /\ ~isSimulatingRef => nodes' = nodes
                  /\ lastEvent' \in {"tick", "frame"} =>
                         lastRender' = render(nodes', edges')]_vars

\* a frame executed while the simulation is paused has rendered the nodes
C23_Witness ==
    /\ lastEvent = "frame"
    /\ ~isSimulatingRef
    /\ Len(nodes) > 0
    /\ Len(lastRender.nodeIds) = Len(nodes)

\* the skills of the store that were never embedded
Unembedded == {k \in 1..Len(skills) : ~skills[k].embedding.present}

\* C24: a skill without embedding gets the default relevance 0.3 and remains
\* eligible for matching: it is among the relevant skills of a search that
\* succeeds, and an employee fetched who holds it is a candidate with that
\* skill among the matchedSkills
C24_UnembeddedSkillEligible ==
    \A i \in Slots :
        Succeeded(i) =>
            \A k \in Unembedded :
                /\ skills[k].id \in RelevantIds(i)
                /\ RelevanceOf(i, skills[k].id) = DefaultRelevance
                /\ \A e \in 1..Len(empList[i]) :
                       (\E h \in 1..Len(hasSkill) :
                            hasSkill[h].in = empList[i][e].id /\ hasSkill[h].out = skills[k].id)
                       => \E c \in 1..Len(candidates[i]) :
                              /\ candidates[i][c].employee = empList[i][e].id
                              /\ \E ms \in 1..Len(candidates[i][c].matchedSkills) :
                                     candidates[i][c].matchedSkills[ms].skill = skills[k].id

\* C25: in a simulation tick the repulsion between every pair of nodes, two
\* nodes at the same position included, is finite and at most the repulsion
\* constant (2500 for a same-type pair, 1500 for a cross-type pair), and every
\* position and velocity is a finite number after the tick
C25_RepulsionBounded ==
    [][\A period \in FramePeriods :
           (animate(period) /\ lastEvent' = "tick") =>
               /\ \A i \in 1..Len(nodes) :
                      ~IsSkipped(nodes[i], draggingNode) =>
                          LET found == StepFrom(nodes, edges, 1, i - 1, draggingNode)
                          IN  \A j \in (1..Len(nodes)) \ {i} :
                                  LET r == Repulsion(found[i], found[j])
                                      most == IF found[i].type = found[j].type
                                              THEN Px(SameTypeRepulsion)
                                              ELSE Px(CrossTypeRepulsion)
                                  IN  /\ ~r.nan
                                      /\ Abs(r.fx) <= most /\ Abs(r.fy) <= most
               /\ \A k \in 1..Len(nodes') : ~nodes'[k].nan]_vars

\* the caller holds an instance that getSurrealInstance returned to it
Handed(c) == caller[c].pc \in {"returned", "queried"}

\* C26: getSurrealInstance hands an instance to a caller only after connect
\* and use (and the session restore) have completed on it, also when two
\* callers invoke it concurrently at startup, and at most one Surreal
\* instance is ever created
C26_InstanceReadyWhenHanded ==
    /\ \A c \in Callers : Handed(c) => caller[c].got = "ready"
    /\ surrealInstance.created <= 1

\* the skill is held, in any letter case, by a member of the team
CoveredByTeam(team, name) ==
    \E m \in 1..Len(team) :
        \E j \in 1..Len(team[m].skills) : ToLowerCase(team[m].skills[j]) = ToLowerCase(name)

\* C27: when findDreamTeam reports a perfect match (no skill uncovered), the
\* members of the team returned, after the cut to teamSize, together hold
\* every required skill, case-insensitively
C27_PerfectMatchCovered ==
    (returned.called /\ returned.value.explanation = "perfect") =>
        /\ returned.value.skillsUncovered = <<>>
        /\ \A k \in 1..Len(args.skills) : CoveredByTeam(returned.value.team, args.skills[k])

\* C28: the result of a search depends on the filters only through
\* department: two searches on one store that differ at most in
\* minProficiency, certified and skills return the same candidates and
\* totalMatches, and every candidate of a search with a department filter is
\* an employee of exactly that department
C28_OnlyDepartmentFilters ==
    /\ (Done(1) /\ Done(2)
          /\ request[1].query = request[2].query
          /\ request[1].limit = request[2].limit
          /\ request[1].filters.department = request[2].filters.department)
        => result[1] = result[2]
    /\ \A i \in Slots :
           (Done(i) /\ request[i].filters.department # "") =>
               \A k \in 1..Len(result[i].candidates) :
                   EmployeeById(result[i].candidates[k].employee).department
                       = request[i].filters.department

\* a search asking for certified skills of proficiency 5 among the skills
\* listed returned, like the search without these filters, a candidate of the
\* department asked for whose only matched skill is uncertified, of
\* proficiency 2 and not listed, while an employee of another department
\* holds a matched skill
C28_Witness ==
    /\ Done(1) /\ Done(2)
    /\ request[2].filters = Filters("eng", 5, TRUE, <<2>>)
    /\ request[1].filters = Filters("eng", 0, FALSE, <<>>)
    /\ result[2].candidates # <<>>
    /\ result[1] = result[2]
    /\ \E k \in 1..Len(result[2].candidates) :
          LET c == result[2].candidates[k]
          IN  \A h \in MatchedEdges(2, c.employee) :
                  /\ ~hasSkill[h].certified
                  /\ hasSkill[h].proficiency = 2
                  /\ hasSkill[h].out = 1
    /\ \E k \in 1..Len(employees) :
          /\ employees[k].department = "ops"
          /\ MatchedEdges(2, employees[k].id) # {}

\* the canvas point is, to less than a pixel, where render draws the world
\* point that the pointer handlers convert it to
InverseOfRender(p) ==
    LET w == ToWorld(p, zoom, pan)
        c == ToScreen(w, zoom, [x |-> 0, y |-> 0])
    IN  Abs(c.x - Px(p[1])) < UNIT /\ Abs(c.y - Px(p[2])) < UNIT

\* C29: the pan offset is (0,0) in every state of the visualizer, no pointer
\* gesture or control changes it, so the screen-to-world conversion of
\* pointer-down and pointer-move is the inverse of the render transform with
\* the pan at the origin; reset view sets zoom 1 and the pan (0,0) again and
\* leaves node positions, selection and the simulating flag unchanged
C29_PanStaysAtOrigin ==
    /\ [](/\ pan = [x |-> 0, y |-> 0]
          /\ \A p \in PointerPoints : InverseOfRender(p))
    /\ [][(lastEvent' = "reset" /\ resetView) =>
              /\ zoom' = ZOOM
              /\ UNCHANGED <<nodes, selectedNode, draggingNode, isSimulatingRef,
                             isSimulating>>]_vars

\* reset view pressed on a zoomed view with a node selected
C29_Witness ==
    /\ lastEvent = "reset"
    /\ count.zooms >= 2
    /\ zoomRun.n = 0 /\ zoom = ZOOM
    /\ selectedNode # NoSelection
    /\ Len(nodes) > 0

\* C30: at most one animation-frame request of the loop is pending at any
\* time, also when the loop is re-created on a change of zoom, pan, selection
\* or drag state (the pending request is cancelled before the new one is
\* issued); after teardown no request is pending and no simulate-step or
\* render executes any more
C30_OneFrameRequest ==
    /\ [](/\ frameRequests <= 1
          /\ mounted => frameRequests = 1
          /\ ~mounted => frameRequests = 0)
    /\ [][~mounted => (nodes' = nodes /\ lastRender' = lastRender
                       /\ count'.ticks = count.ticks /\ count'.frames = count.frames)]_vars

\* the component was torn down after the loop had been re-created by a
\* pointer-down and had executed a frame
C30_Witness ==
    /\ ~mounted
    /\ lastEvent = "unmount"
    /\ count.pointer > 0
    /\ count.frames > 0
    /\ frameRequests = 0

====
